---- MODULE Spec2Model ----
(***************************************************************************)
(* Verification model of dtrader-server's ingestion core:                  *)
(*   OrderBookStore   (src/data/OrderBookStore.ts,   src/unnamed/part_000) *)
(*   CandleBuilder    (src/data/CandleBuilder.ts,    src/unnamed/part_001) *)
(*   CandleStore      (src/data/CandleStore.ts,      src/unnamed/part_002) *)
(*   GateioWebSocket  (src/exchange/GateioWebSocket.ts, src/unnamed/part_005) *)
(* Each component has its own specification (SpecBook, SpecWS, SpecCandle);*)
(* the variables of the other components keep their constructed values.    *)
(***************************************************************************)
EXTENDS Integers, Sequences, FiniteSets, TLC

VARIABLES
    \* ---- OrderBookStore (part_000:39-43) ----
    bids,           \* Map<number, number>: price -> amount
    asks,           \* Map<number, number>: price -> amount
    lastUpdateId,
    lastSyncTime,
    updateCount,
    \* ---- collaborators of OrderBookStore ----
    fetches,        \* sync() calls suspended at `await getOrderBook` (part_000:87)
    syncedEvents,   \* number of "data:orderbook:synced" events emitted
    syncFailures,   \* number of sync() calls that threw to their caller
    venueBids,      \* the venue's authoritative book
    venueAsks,
    venueId,        \* id of the venue's last diff
    stream,         \* diffs produced by the venue, not yet delivered (in order)
    noisySnapshot,  \* ghost: the snapshot loaded last carried levels the venue does not have
    now,            \* Date.now(), in clock ticks
    \* ---- CandleBuilder (part_001:210-215) ----
    accumulator1m,
    accumulator6m,
    lastProcessed1m,    \* <<>> for null, <<timestamp>> otherwise
    lastProcessed6m,
    \* ---- CandleStore (part_002:33-43) ----
    candles,
    totalCounts,
    \* ---- collaborators of CandleBuilder ----
    completed6m,    \* "data:candle:6m:completed" events, in order
    completed24m,   \* "data:candle:24m:completed" events, in order
    gapReports,     \* handleMissingCandles calls: <<timeframe, last, current>>
    fed,            \* ghost: candles handed to handle1mCandle since the builder was empty
    groups,         \* ghost: for each aggregated candle, the timestamps it was built from
    feedPos,        \* the minute of the candle the venue closed last
    booted,         \* initializeCandleData has run
    resets,         \* number of reset() calls
    startedEmpty,   \* ghost: both accumulators were empty when `fed` started
    \* ---- GateioWebSocket (part_005:71-86) ----
    ws,                 \* 0 for null, else the index of the transport in `transports`
    isConnected,
    shouldReconnect,
    subscriptions,      \* Map<string, SubscriptionStatus>
    reconnectAttempts,
    currentReconnectInterval,
    reconnectTimer,     \* the three timer fields: TRUE when the field holds a handle
    pingTimer,
    pongTimer,
    config,             \* this.config
    \* ---- collaborators of GateioWebSocket ----
    transports,     \* every WebSocket created, in order: state, requests awaiting the venue
    timers,         \* pending setTimeout/setInterval timers of the session
    tasks,          \* async calls suspended at an await: connect() or waitForSubscription
    reconnecting,   \* "exchange:reconnecting" events, in order
    journal,        \* what the last step emitted on the event bus, in order
    process,        \* "running", "crashed" (uncaught exception) or "exited"
    disconnects,    \* number of disconnect() calls
    pongTimeoutFired,   \* ghost: "exchange:pong:timeout" was emitted
    pongReceived,       \* ghost: "exchange:pong:received" was emitted
    ready,              \* "system:ready" was emitted
    \* ---- TickStore (part_003:44-47) ----
    ticks,          \* Tick[]
    tickCount,
    maxSize,
    \* ---- the direct use of the stores ----
    driven,         \* the buffer the run adds to: "tick", a timeframe, or "none"
    accepted,       \* ghost: items add() has accepted
    clears,         \* number of clear() calls
    \* ---- the resync timer of OrderBookStore (part_000:266-287) ----
    timerDue,       \* Date.now() of the next firing of the setInterval timer
    firings,        \* ghost: the firings so far, with whether sync() was called
    \* ---- EventBus (part_004) ----
    listeners,      \* the listeners of one event in the order of registration
    invoked,        \* ghost: the listeners the last emission has called
    busErrors,      \* stats.errors
    emitted,        \* stats.emitted of the event
    \* ---- the candle poll of index.ts (part_003:480-546) ----
    updaterTimer,   \* the setInterval timer is active
    exitTimer,      \* the setTimeout that ends the process is pending
    exited,         \* process.exit was called
    pollErrors,     \* ghost: the poll failures logged so far
    \* ---- FuturesWebSocket (part_006:40-52) ----
    fWs,            \* this.ws: index into fTransports, 0 for null
    fIsConnected,
    fShouldReconnect,
    fReconnectAttempts,
    fPingIntervalId,    \* this.pingIntervalId is not null
    fPongTimeoutId,     \* this.pongTimeoutId is not null
    fTransports,    \* the WebSocket objects created so far
    fTimers,        \* pending ping intervals and pong timeouts
    fTasks,         \* suspended connect() / subscribe() / reconnect() calls
    fProcess        \* "running" or "crashed" (uncaught exception in a timer callback)

bookVars == <<bids, asks, lastUpdateId, lastSyncTime, updateCount, fetches,
              syncedEvents, syncFailures, venueBids, venueAsks, venueId, stream,
              noisySnapshot, now>>

candleVars == <<accumulator1m, accumulator6m, lastProcessed1m, lastProcessed6m,
                candles, totalCounts, completed6m, completed24m, gapReports,
                fed, groups, feedPos, booted, resets,
                startedEmpty>>

wsVars == <<ws, isConnected, shouldReconnect, subscriptions, reconnectAttempts,
            currentReconnectInterval, reconnectTimer, pingTimer, pongTimer,
            config, transports, timers, tasks, reconnecting, journal, process,
            disconnects, pongTimeoutFired, pongReceived, ready>>

storeVars == <<ticks, tickCount, maxSize, driven, accepted, clears>>

resyncVars == <<timerDue, firings>>

busVars == <<listeners, invoked, busErrors, emitted>>

pollVars == <<updaterTimer, exitTimer, exited, pollErrors>>

futVars == <<fWs, fIsConnected, fShouldReconnect, fReconnectAttempts,
             fPingIntervalId, fPongTimeoutId, fTransports, fTimers, fTasks, fProcess>>

restVars == <<busVars, pollVars, futVars>>

vars == <<bookVars, candleVars, wsVars, storeVars, resyncVars, restVars>>

----------------------------------------------------------------------------
\* Bounds of the model

MaxUpdateId == 1      \* the venue produces diffs 1..MaxUpdateId
MaxTime == 1          \* clock ticks
MaxSyncs == 2         \* sync() calls made in a run
MaxStream == 1        \* diffs in flight at once

BidPrices == {99, 100}
AskPrices == {101}
Amounts == {0, 1, 2}

\* A JavaScript number: a value or NaN
Num(v) == [nan |-> FALSE, val |-> v]
NaN == [nan |-> TRUE, val |-> 0]
isNaN(x) == x.nan

----------------------------------------------------------------------------
\* JavaScript values

\* Number -> string, as the venue prints prices and amounts.
ToStr(n) ==
    CASE n = 0 -> "0" [] n = 1 -> "1" [] n = 2 -> "2"
      [] n = 99 -> "99" [] n = 100 -> "100" [] n = 101 -> "101"
      [] OTHER -> "?"

\* parseFloat: the longest numeric prefix, NaN when there is none.
ParseFloat(s) ==
    CASE s = "0" -> Num(0) [] s = "1" -> Num(1) [] s = "2" -> Num(2)
      [] s = "2x" -> Num(2)
      [] s = "99" -> Num(99) [] s = "100" -> Num(100) [] s = "101" -> Num(101)
      [] OTHER -> NaN

\* A number as a Map key or value: NaN is kept as NaNKey (a Map holds at most
\* one NaN key).
NaNKey == -1
JsNum(x) == IF isNaN(x) THEN NaNKey ELSE x.val

\* Map<number, number>
EmptyMap == [p \in {} |-> 0]
MapSet(m, k, v) == [p \in (DOMAIN m) \cup {k} |-> IF p = k THEN v ELSE m[p]]
MapDelete(m, k) == [p \in (DOMAIN m) \ {k} |-> m[p]]

RemoveAt(s, i) == [j \in 1..(Len(s) - 1) |-> IF j < i THEN s[j] ELSE s[j + 1]]

----------------------------------------------------------------------------
\* OrderBookStore

Symbol == "ETH_USDT"
OtherSymbol == "BTC_USDT"

\* One level of a REST snapshot as it arrives: ["p","a"], {price, amount}, or
\* anything else (enc = "other").
RawLevel(enc, p, a) == [enc |-> enc, price |-> p, amount |-> a]

\* sync(), body of one forEach iteration (bids 108-140, asks 143-171):
\* the map after the level was looked at.
LoadLevel(m, level) ==
    IF level.enc \in {"array", "object"}
    THEN LET price == ParseFloat(level.price)
             amount == ParseFloat(level.amount)
         IN  IF isNaN(price) \/ isNaN(amount)
             THEN m
             ELSE MapSet(m, price.val, amount.val)
    ELSE m

RECURSIVE LoadLevels(_, _)
LoadLevels(m, levels) ==
    IF levels = <<>> THEN m
    ELSE LoadLevels(LoadLevel(m, Head(levels)), Tail(levels))

\* applyUpdate() as it would be if a price already in the map kept its level.
ApplyLevelKeepsFirst(m, level) ==
    IF level.price \in DOMAIN m THEN m ELSE MapSet(m, level.price, level.amount)

\* applyUpdate() as it would be if a zero amount were stored like any other.
ApplyLevelStoresZero(m, level) ==
    MapSet(m, level.price, level.amount)

\* applyUpdate(), body of one forEach iteration (bids 218-229, asks 232-241).
ApplyLevel(m, level) ==
    IF level.amount = 0
    THEN MapDelete(m, level.price)
    ELSE MapSet(m, level.price, level.amount)

RECURSIVE ApplyLevels(_, _)
ApplyLevels(m, levels) ==
    IF levels = <<>> THEN m
    ELSE ApplyLevels(ApplyLevel(m, Head(levels)), Tail(levels))

----------------------------------------------------------------------------
\* The venue: its book changes by diffs with increasing ids; a snapshot is the
\* book at the moment the venue serves the request.

Level(p, a) == [price |-> p, amount |-> a]

\* The changes the venue makes to its book: one level set, changed or removed
\* on either side, or a bid and an ask changed together.
DiffChoices ==
    {<<(<<Level(p, a)>>), <<>>>> : p \in BidPrices, a \in Amounts}
      \cup {<<(<<>>), <<Level(p, a)>>>> : p \in AskPrices, a \in Amounts}
      \cup {<<(<<Level(100, 2)>>), <<Level(101, 0)>>>>}

Max(S) == CHOOSE x \in S : \A y \in S : y <= x
Min(S) == CHOOSE x \in S : \A y \in S : x <= y

\* The venue lists bids from the highest price down, asks from the lowest up.
RECURSIVE Encode(_, _, _, _)
Encode(m, rest, desc, enc) ==
    IF rest = {} THEN <<>>
    ELSE LET p == IF desc THEN Max(rest) ELSE Min(rest)
         IN  <<RawLevel(enc, ToStr(p), ToStr(m[p]))>>
                 \o Encode(m, rest \ {p}, desc, enc)

\* What a response may carry: the venue's levels in either wire encoding,
\* and possibly levels beyond the venue's book (a zero amount, a numeric
\* prefix, an unparsable price or amount, an unknown shape).
Responses ==
    { [enc |-> "array",  xb |-> <<>>, xa |-> <<>>],
      [enc |-> "object", xb |-> <<>>, xa |-> <<>>],
      [enc |-> "array",  xb |-> <<RawLevel("array", "99", "0")>>, xa |-> <<>>],
      [enc |-> "object", xb |-> <<RawLevel("array", "abc", "1")>>,
                         xa |-> <<RawLevel("object", "101", "2x")>>],
      [enc |-> "array",  xb |-> <<RawLevel("other", "", "")>>,
                         xa |-> <<RawLevel("object", "101", "")>>] }

Sent == [phase |-> "sent", id |-> 0, bids |-> <<>>, asks |-> <<>>, noisy |-> FALSE]

RECURSIVE VenueApply(_, _)
VenueApply(m, levels) ==
    IF levels = <<>> THEN m
    ELSE LET l == Head(levels)
         IN  VenueApply(IF l.amount = 0 THEN MapDelete(m, l.price)
                        ELSE MapSet(m, l.price, l.amount), Tail(levels))

Diff(sym, id, bl, al) == [symbol |-> sym, updateId |-> id, bids |-> bl, asks |-> al]

\* A spot.order_book_update frame: s, u, and b, a as arrays of ["price", "amount"]
Frame(sym, id, b, a) == [s |-> sym, u |-> id, b |-> b, a |-> a]
Wire(levels) ==
    [i \in 1..Len(levels) |-> <<ToStr(levels[i].price), ToStr(levels[i].amount)>>]

\* GateioWebSocket.handleOrderBookUpdate, part_005:406-430: the payload of
\* "data:orderbook:updated"; prices and amounts go through parseFloat unchecked.
handleOrderBookUpdate(result) ==
    Diff(result.s, result.u,
         [i \in 1..Len(result.b) |->
             Level(JsNum(ParseFloat(result.b[i][1])), JsNum(ParseFloat(result.b[i][2])))],
         [i \in 1..Len(result.a) |->
             Level(JsNum(ParseFloat(result.a[i][1])), JsNum(ParseFloat(result.a[i][2])))])

\* The venue changes its book and publishes the diff on the stream.
VenueDiff ==
    /\ venueId < MaxUpdateId
    /\ Len(stream) < MaxStream
    /\ \E d \in DiffChoices :
          /\ venueBids' = VenueApply(venueBids, d[1])
          /\ venueAsks' = VenueApply(venueAsks, d[2])
          /\ stream' = Append(stream, Frame(Symbol, venueId + 1, Wire(d[1]), Wire(d[2])))
    /\ venueId' = venueId + 1
    /\ UNCHANGED <<bids, asks, lastUpdateId, lastSyncTime, updateCount, fetches,
                   syncedEvents, syncFailures, noisySnapshot, now>>

\* A diff of another trading pair arrives on the same event.
ForeignDiff ==
    /\ Len(stream) < MaxStream
    /\ \A i \in 1..Len(stream) : stream[i].s = Symbol
    /\ stream' = Append(stream, Frame(OtherSymbol, 9, <<(<<"100", "2">>)>>, <<(<<"101", "0">>)>>))
    /\ UNCHANGED <<bids, asks, lastUpdateId, lastSyncTime, updateCount, fetches,
                   syncedEvents, syncFailures, venueBids, venueAsks, venueId,
                   noisySnapshot, now>>

\* A frame of the session's pair arrives with a price or an amount that is not
\* a number (it has the shape isValidOrderBookUpdate asks for, part_005:446-455).
GarbledDiff ==
    /\ Len(stream) < MaxStream
    /\ updateCount <= MaxUpdateId
    /\ \E bad \in {<<"abc", "1">>, <<"99", "abc">>} :
          stream' = Append(stream, Frame(Symbol, venueId, <<bad>>, <<>>))
    /\ UNCHANGED <<bids, asks, lastUpdateId, lastSyncTime, updateCount, fetches,
                   syncedEvents, syncFailures, venueBids, venueAsks, venueId,
                   noisySnapshot, now>>

\* The venue answers a pending snapshot request with its book as of now.
VenueServe(i) ==
    /\ fetches[i].phase = "sent"
    /\ \E r \in Responses :
          fetches' = [fetches EXCEPT ![i] =
              [phase |-> "served",
               id    |-> venueId,
               bids  |-> Encode(venueBids, DOMAIN venueBids, TRUE, r.enc) \o r.xb,
               asks  |-> Encode(venueAsks, DOMAIN venueAsks, FALSE, r.enc) \o r.xa,
               noisy |-> r.xb # <<>> \/ r.xa # <<>>]]
    /\ UNCHANGED <<bids, asks, lastUpdateId, lastSyncTime, updateCount,
                   syncedEvents, syncFailures, venueBids, venueAsks, venueId,
                   stream, noisySnapshot, now>>

\* applyUpdate() as it would be if it dropped an update whose id is not above
\* lastUpdateId.
applyUpdateSkipsStale(update) ==
    IF update.updateId <= lastUpdateId
    THEN UNCHANGED <<bids, asks, lastUpdateId, updateCount>>
    ELSE /\ updateCount' = updateCount + 1
         /\ bids' = ApplyLevels(bids, update.bids)
         /\ asks' = ApplyLevels(asks, update.asks)
         /\ lastUpdateId' = update.updateId

\* applyUpdate(update), part_000:211-261
applyUpdate(update) ==
    /\ updateCount' = updateCount + 1
    /\ bids' = ApplyLevels(bids, update.bids)
    /\ asks' = ApplyLevels(asks, update.asks)
    /\ lastUpdateId' = update.updateId

\* The listener of "data:orderbook:updated", part_000:70-74
OnOrderBookUpdated ==
    /\ stream # <<>>
    /\ LET update == handleOrderBookUpdate(Head(stream))
       IN  IF update.symbol = Symbol
           THEN applyUpdate(update)
           ELSE UNCHANGED <<bids, asks, lastUpdateId, updateCount>>
    /\ stream' = Tail(stream)
    /\ UNCHANGED <<lastSyncTime, fetches, syncedEvents, syncFailures, venueBids,
                   venueAsks, venueId, noisySnapshot, now>>

\* sync() as it would be with the maps cleared before the fetch is awaited.
SyncBeginClearsFirst ==
    /\ fetches = <<>>
    /\ Len(fetches) + syncedEvents + syncFailures < MaxSyncs
    /\ fetches' = Append(fetches, Sent)
    /\ bids' = EmptyMap
    /\ asks' = EmptyMap
    /\ UNCHANGED <<lastUpdateId, lastSyncTime, updateCount,
                   syncedEvents, syncFailures, venueBids, venueAsks, venueId,
                   stream, noisySnapshot, now>>

\* sync() up to its suspension at `await this.gateioClient.getOrderBook`,
\* part_000:80-90. Its callers are main(), which awaits it (part_003:651), and
\* the hourly timer (part_000:267-287); a request is bounded by the client's
\* request timeout (GateioClient.ts:329-343), so that calls do not overlap.
SyncBegin ==
    /\ fetches = <<>>
    /\ Len(fetches) + syncedEvents + syncFailures < MaxSyncs
    /\ fetches' = Append(fetches, Sent)
    /\ UNCHANGED <<bids, asks, lastUpdateId, lastSyncTime, updateCount,
                   syncedEvents, syncFailures, venueBids, venueAsks, venueId,
                   stream, noisySnapshot, now>>

\* sync() as it would be without the two clear() calls of part_000:104-105.
SyncLoadKeepsOld(i) ==
    /\ fetches[i].phase = "served"
    /\ bids' = LoadLevels(bids, fetches[i].bids)
    /\ asks' = LoadLevels(asks, fetches[i].asks)
    /\ lastUpdateId' = fetches[i].id
    /\ lastSyncTime' = now
    /\ syncedEvents' = syncedEvents + 1
    /\ noisySnapshot' = fetches[i].noisy
    /\ fetches' = RemoveAt(fetches, i)
    /\ UNCHANGED <<updateCount, syncFailures, venueBids, venueAsks, venueId,
                   stream, now>>

\* sync() resumed with the response, part_000:92-198
SyncLoad(i) ==
    /\ fetches[i].phase = "served"
    /\ bids' = LoadLevels(EmptyMap, fetches[i].bids)
    /\ asks' = LoadLevels(EmptyMap, fetches[i].asks)
    /\ lastUpdateId' = fetches[i].id
    /\ lastSyncTime' = now
    /\ syncedEvents' = syncedEvents + 1
    /\ noisySnapshot' = fetches[i].noisy
    /\ fetches' = RemoveAt(fetches, i)
    /\ UNCHANGED <<updateCount, syncFailures, venueBids, venueAsks, venueId,
                   stream, now>>

\* sync() resumed with a rejected fetch, part_000:199-205
SyncFail(i) ==
    /\ syncFailures' = syncFailures + 1
    /\ fetches' = RemoveAt(fetches, i)
    /\ UNCHANGED <<bids, asks, lastUpdateId, lastSyncTime, updateCount,
                   syncedEvents, venueBids, venueAsks, venueId, stream,
                   noisySnapshot, now>>

Tick ==
    /\ now <= MaxTime
    /\ now' = now + 1
    /\ UNCHANGED <<bids, asks, lastUpdateId, lastSyncTime, updateCount, fetches,
                   syncedEvents, syncFailures, venueBids, venueAsks, venueId,
                   stream, noisySnapshot>>

MaxCount == 3         \* the count given to getBids / getAsks is 0..MaxCount

\* a < b on JavaScript numbers: false when either is NaN
JsLess(a, b) == a # NaNKey /\ b # NaNKey /\ a < b

\* Array.from(map.entries()).sort(comparator) by price, part_000:317-319 and
\* 327-329: the keys in order when all are numbers.  With NaN among the keys
\* the comparator (a difference of prices) is not consistent and the order
\* the sort leaves is implementation-defined.
sortOutcomes(S, desc) ==
    {f \in [1..Cardinality(S) -> S] :
        /\ \A i, j \in 1..Cardinality(S) : i # j => f[i] # f[j]
        /\ NaNKey \notin S =>
              \A i \in 1..(Cardinality(S) - 1) :
                  IF desc THEN f[i] > f[i + 1] ELSE f[i] < f[i + 1]}

\* .slice(0, count).map(([price, amount]) => ({ price, amount }))
sliceLevels(m, f, count) ==
    [i \in 1..Min({count, Len(f)}) |-> Level(f[i], m[f[i]])]

\* OrderBookStore.getBids, part_000:316-321: what a call may return
getBids(count) ==
    {sliceLevels(bids, f, count) : f \in sortOutcomes(DOMAIN bids, TRUE)}

\* OrderBookStore.getAsks, part_000:326-331
getAsks(count) ==
    {sliceLevels(asks, f, count) : f \in sortOutcomes(DOMAIN asks, FALSE)}

\* this.maxLevels, part_000:45
maxLevels == 20

\* Arithmetic on JavaScript numbers: NaN in, NaN out.
FromKey(k) == IF k = NaNKey THEN NaN ELSE Num(k)
JsAdd(x, y) == IF isNaN(x) \/ isNaN(y) THEN NaN ELSE Num(x.val + y.val)
JsSub(x, y) == IF isNaN(x) \/ isNaN(y) THEN NaN ELSE Num(x.val - y.val)
JsMul(x, y) == IF isNaN(x) \/ isNaN(y) THEN NaN ELSE Num(x.val * y.val)
JsPositive(x) == ~isNaN(x) /\ x.val > 0

\* A quotient that need not be whole, kept as numerator over denominator.
Ratio(n, d) == [nan |-> FALSE, num |-> n, den |-> d]
NaNRatio == [nan |-> TRUE, num |-> 0, den |-> 1]
JsDiv(x, d) == IF isNaN(x) \/ isNaN(d) THEN NaNRatio ELSE Ratio(x.val, d.val)
RatioEq(x, y) == x.nan = y.nan /\ (~x.nan => x.num * y.den = y.num * x.den)

\* levels.reduce((sum, level) => sum + level.price * level.amount, 0)
RECURSIVE Volume(_)
Volume(levels) ==
    IF levels = <<>> THEN Num(0)
    ELSE JsAdd(Volume(SubSeq(levels, 1, Len(levels) - 1)),
               JsMul(FromKey(levels[Len(levels)].price), FromKey(levels[Len(levels)].amount)))

\* OrderBookStore.getStats, part_000:337-395, from the two sorted reads
StatsOf(b, a) ==
    IF Len(b) = 0 \/ Len(a) = 0
    THEN [bestBid |-> Num(0), bestAsk |-> Num(0), spread |-> Num(0),
          spreadPercent |-> Ratio(0, 1), midPrice |-> Ratio(0, 1),
          bidVolume |-> Num(0), askVolume |-> Num(0), totalVolume |-> Num(0),
          bidPercent |-> Ratio(50, 1), askPercent |-> Ratio(50, 1)]
    ELSE LET bestBid == FromKey(b[1].price)
             bestAsk == FromKey(a[1].price)
             spread == JsSub(bestAsk, bestBid)
             sum == JsAdd(bestBid, bestAsk)
             bidVolume == Volume(b)
             askVolume == Volume(a)
             totalVolume == JsAdd(bidVolume, askVolume)
         IN  [bestBid |-> bestBid, bestAsk |-> bestAsk, spread |-> spread,
              spreadPercent |-> IF JsPositive(sum)
                                THEN JsDiv(JsMul(spread, Num(200)), sum)
                                ELSE Ratio(0, 1),
              midPrice |-> JsDiv(sum, Num(2)),
              bidVolume |-> bidVolume, askVolume |-> askVolume,
              totalVolume |-> totalVolume,
              bidPercent |-> IF JsPositive(totalVolume)
                             THEN JsDiv(JsMul(bidVolume, Num(100)), totalVolume)
                             ELSE Ratio(50, 1),
              askPercent |-> IF JsPositive(totalVolume)
                             THEN JsDiv(JsMul(askVolume, Num(100)), totalVolume)
                             ELSE Ratio(50, 1)]

\* What getStats() may return for the two maps.
getStatsOf(bm, am) ==
    {StatsOf(sliceLevels(bm, f, maxLevels), sliceLevels(am, g, maxLevels)) :
        f \in sortOutcomes(DOMAIN bm, TRUE), g \in sortOutcomes(DOMAIN am, FALSE)}

getStats == getStatsOf(bids, asks)

BookInit ==
    /\ bids = EmptyMap
    /\ asks = EmptyMap
    /\ lastUpdateId = 0
    /\ lastSyncTime = 0
    /\ updateCount = 0
    /\ fetches = <<>>
    /\ syncedEvents = 0
    /\ syncFailures = 0
    /\ venueBids \in {EmptyMap, [p \in {100} |-> 1]}
    /\ venueAsks = [p \in {101} |-> 1]
    /\ venueId = 0
    /\ stream = <<>>
    /\ noisySnapshot = FALSE
    /\ now = 1

BookNext ==
    \/ VenueDiff /\ UNCHANGED <<candleVars, wsVars, storeVars, resyncVars, restVars>>
    \/ ForeignDiff /\ UNCHANGED <<candleVars, wsVars, storeVars, resyncVars, restVars>>
    \/ \E i \in 1..Len(fetches) : VenueServe(i) /\ UNCHANGED <<candleVars, wsVars, storeVars, resyncVars, restVars>>
    \/ OnOrderBookUpdated /\ UNCHANGED <<candleVars, wsVars, storeVars, resyncVars, restVars>>
    \/ SyncBegin /\ UNCHANGED <<candleVars, wsVars, storeVars, resyncVars, restVars>>
    \/ \E i \in 1..Len(fetches) : SyncLoad(i) /\ UNCHANGED <<candleVars, wsVars, storeVars, resyncVars, restVars>>
    \/ \E i \in 1..Len(fetches) : SyncFail(i) /\ UNCHANGED <<candleVars, wsVars, storeVars, resyncVars, restVars>>
    \/ Tick /\ UNCHANGED <<candleVars, wsVars, storeVars, resyncVars, restVars>>

MaxFrameId == 3       \* frames carry the update ids 0..MaxFrameId
MaxApplied == 2       \* updates applied in a run of frames with any id

\* A frame of the session's pair arrives with whatever update id it carries;
\* the session hands result.u on as it is (part_005:406-430), and the listener
\* runs before the next frame is read.
AnyIdDiff ==
    /\ stream = <<>>
    /\ updateCount < MaxApplied
    /\ \E id \in 0..MaxFrameId, d \in DiffChoices :
          stream' = <<Frame(Symbol, id, Wire(d[1]), Wire(d[2]))>>
    /\ UNCHANGED <<bids, asks, lastUpdateId, lastSyncTime, updateCount, fetches,
                   syncedEvents, syncFailures, venueBids, venueAsks, venueId,
                   noisySnapshot, now>>

\* The store fed with frames of any id.
BookNextIds ==
    \/ AnyIdDiff /\ UNCHANGED <<candleVars, wsVars, storeVars, resyncVars, restVars>>
    \/ OnOrderBookUpdated /\ UNCHANGED <<candleVars, wsVars, storeVars, resyncVars, restVars>>

\* this.syncInterval, part_000:46
syncInterval == 3600000

Latency == 1000       \* milliseconds a snapshot request is under way
MaxFirings == 4       \* firings of the resync timer in a run

\* The constructor has called startPeriodicSync() (part_000:63, 266-287): the
\* first firing is one interval after the construction.
ResyncInit ==
    /\ timerDue = 1 + syncInterval
    /\ firings = <<>>

\* main() calls sync() once, shortly after the construction (part_003:651).
mainSync ==
    /\ fetches = <<>>
    /\ firings = <<>>
    /\ now < timerDue
    /\ syncedEvents + syncFailures = 0
    /\ fetches' = Append(fetches, Sent)
    /\ UNCHANGED <<bids, asks, lastUpdateId, lastSyncTime, updateCount,
                   syncedEvents, syncFailures, venueBids, venueAsks, venueId,
                   stream, noisySnapshot, now, resyncVars>>

\* Time passes while a snapshot request is under way.
RequestTakesTime ==
    /\ fetches # <<>>
    /\ now = timerDue - syncInterval
    /\ now' = now + Latency
    /\ UNCHANGED <<bids, asks, lastUpdateId, lastSyncTime, updateCount, fetches,
                   syncedEvents, syncFailures, venueBids, venueAsks, venueId,
                   stream, noisySnapshot, resyncVars>>

\* Time passes until the timer is due; a request is over long before
\* (GateioClient.ts:329-343).
WaitForTimer ==
    /\ fetches = <<>>
    /\ now < timerDue
    /\ Len(firings) < MaxFirings
    /\ now' = timerDue
    /\ UNCHANGED <<bids, asks, lastUpdateId, lastSyncTime, updateCount, fetches,
                   syncedEvents, syncFailures, venueBids, venueAsks, venueId,
                   stream, noisySnapshot, resyncVars>>

\* The callback of setInterval, part_000:267-286, up to its await.
TimerFires ==
    /\ now = timerDue
    /\ fetches = <<>>
    /\ LET timeSinceSync == now - lastSyncTime
           due == timeSinceSync >= syncInterval
       IN  /\ fetches' = IF due THEN Append(fetches, Sent) ELSE fetches
           /\ firings' = Append(firings, [at |-> now, synced |-> due])
    /\ timerDue' = timerDue + syncInterval
    /\ UNCHANGED <<bids, asks, lastUpdateId, lastSyncTime, updateCount,
                   syncedEvents, syncFailures, venueBids, venueAsks, venueId,
                   stream, noisySnapshot, now>>

\* The store with its resync timer and the startup sync of main().
ResyncNext ==
    \/ mainSync /\ UNCHANGED <<candleVars, wsVars, storeVars, restVars>>
    \/ RequestTakesTime /\ UNCHANGED <<candleVars, wsVars, storeVars, restVars>>
    \/ WaitForTimer /\ UNCHANGED <<candleVars, wsVars, storeVars, restVars>>
    \/ TimerFires /\ UNCHANGED <<candleVars, wsVars, storeVars, restVars>>
    \/ \E i \in 1..Len(fetches) : VenueServe(i) /\ UNCHANGED <<candleVars, wsVars, storeVars, resyncVars, restVars>>
    \/ \E i \in 1..Len(fetches) : SyncLoad(i) /\ UNCHANGED <<candleVars, wsVars, storeVars, resyncVars, restVars>>
    \/ \E i \in 1..Len(fetches) : SyncFail(i) /\ UNCHANGED <<candleVars, wsVars, storeVars, resyncVars, restVars>>

\* The same with frames that carry text where a number belongs.
BookNextRaw ==
    \/ BookNext
    \/ GarbledDiff /\ UNCHANGED <<candleVars, wsVars, storeVars, resyncVars, restVars>>

BookIdle == BookInit /\ venueBids = EmptyMap

----------------------------------------------------------------------------
\* Candles (src/data/types.ts, part_001:126-156)

TIMEFRAME_1M == 60000
TIMEFRAME_6M == 360000
TIMEFRAME_24M == 1440000
TIMEFRAME_MS(tf) ==
    CASE tf = "1m" -> TIMEFRAME_1M [] tf = "6m" -> TIMEFRAME_6M [] tf = "24m" -> TIMEFRAME_24M

AGGREGATION_1M_TO_6M == 6
AGGREGATION_6M_TO_24M == 4

BUFFER_SIZE_1M == 500
BUFFER_SIZE_6M == 240
BUFFER_SIZE_24M == 120
bufferSizes(tf) ==
    CASE tf = "1m" -> BUFFER_SIZE_1M [] tf = "6m" -> BUFFER_SIZE_6M [] tf = "24m" -> BUFFER_SIZE_24M

Timeframes == {"1m", "6m", "24m"}

MaxMinute == 25       \* the venue closes candles of minutes 0..MaxMinute
GapHorizon == 9       \* minutes of the feed in the gap specification
MaxGaps == 1          \* irregular polls in a run (a missed minute, a timestamp off the grid)
MaxStart == 1         \* the history starts at minute 0..MaxStart

\* Lengths of the history the bootstrap loads: nothing, an incomplete group,
\* one group, a group and a rest, two groups and a rest, four groups and a rest.
HistoryLengths == {0, 3, 6, 7, 13, 25}
MaxResets == 1        \* reset() calls in a run

SeqMax(f) == Max({f[i] : i \in 1..Len(f)})
SeqMin(f) == Min({f[i] : i \in 1..Len(f)})
RECURSIVE SeqSum(_)
SeqSum(f) == IF f = <<>> THEN 0 ELSE Head(f) + SeqSum(Tail(f))
Field(cs, name) == [i \in 1..Len(cs) |-> cs[i][name]]

\* The 1m candle the venue publishes for a timestamp: prices and volumes vary
\* with the minute so that first, last, extremes and sums differ.
VenueCandle(ts) ==
    LET m == ts \div TIMEFRAME_1M
        o == 100 + (m % 4)
        c == 100 + ((m + 2) % 5)
    IN  [timestamp |-> ts, open |-> o, close |-> c,
         high |-> (IF o > c THEN o ELSE c) + (m % 3),
         low |-> (IF o < c THEN o ELSE c) - ((m + 1) % 2),
         volume |-> 1 + (m % 2), quoteVolume |-> 100 + (m % 3)]

\* CandleStore.add, part_002:63-103 (isDuplicate 156-159)
StoreAdd(st, tf, candle) ==
    LET buffer == st.candles[tf]
    IN  IF buffer # <<>> /\ buffer[Len(buffer)].timestamp = candle.timestamp
        THEN st
        ELSE LET pushed == Append(buffer, candle)
                 kept == IF Len(pushed) > bufferSizes(tf) THEN Tail(pushed) ELSE pushed
             IN  [st EXCEPT !.candles[tf] = kept,
                            !.totalCounts[tf] = @ + 1]

\* CandleStore.getLastN, part_002:118-122
getLastN(st, tf, count) ==
    LET buffer == st.candles[tf]
    IN  IF count = 0 \/ Len(buffer) <= count THEN buffer
        ELSE SubSeq(buffer, Len(buffer) - count + 1, Len(buffer))

\* CandleBuilder.aggregate, part_001:374-384
aggregate(cs) ==
    [timestamp |-> cs[1].timestamp,
     open |-> cs[1].open,
     close |-> cs[Len(cs)].close,
     high |-> SeqMax(Field(cs, "high")),
     low |-> SeqMin(Field(cs, "low")),
     volume |-> SeqSum(Field(cs, "volume")),
     quoteVolume |-> SeqSum(Field(cs, "quoteVolume"))]

\* isValidTimestamp as it would be if every timestamp passed.
isValidTimestampAny(timestamp, tf) == TRUE

\* CandleBuilder.isValidTimestamp, part_001:393-396
isValidTimestamp(timestamp, tf) == timestamp % TIMEFRAME_MS(tf) = 0

\* CandleBuilder.isTimeAligned, part_001:405-411
isTimeAligned(timestamp, tf) == timestamp % TIMEFRAME_MS(tf) = 0

\* The state the candle handlers work on, as one record.
CandleState ==
    [accumulator1m |-> accumulator1m, accumulator6m |-> accumulator6m,
     lastProcessed1m |-> lastProcessed1m, lastProcessed6m |-> lastProcessed6m,
     candles |-> candles, totalCounts |-> totalCounts,
     completed6m |-> completed6m, completed24m |-> completed24m,
     gapReports |-> gapReports, fed |-> fed, groups |-> groups]

Timestamps(cs) == Field(cs, "timestamp")

\* CandleBuilder.handle6mCandle, part_001:310-365
handle6mCandle(st, candle) ==
    LET gap == st.lastProcessed6m # <<>>
               /\ candle.timestamp # st.lastProcessed6m[1] + TIMEFRAME_MS("6m")
        s1 == [st EXCEPT
                 !.gapReports = IF gap
                                THEN Append(@, <<"6m", st.lastProcessed6m[1], candle.timestamp>>)
                                ELSE @,
                 !.lastProcessed6m = <<candle.timestamp>>,
                 !.accumulator6m = Append(@, candle)]
        acc == s1.accumulator6m
    IN  IF ~isTimeAligned(candle.timestamp, "24m") THEN s1
        ELSE IF Len(acc) = AGGREGATION_6M_TO_24M
        THEN LET candle24m == aggregate(acc)
                 s2 == StoreAdd(s1, "24m", candle24m)
             IN  [s2 EXCEPT !.completed24m = Append(@, candle24m),
                            !.groups = Append(@, [tf |-> "24m", from |-> Timestamps(acc)]),
                            !.accumulator6m = <<>>]
        ELSE IF Len(acc) > AGGREGATION_6M_TO_24M
        THEN [s1 EXCEPT !.accumulator6m = <<>>]
        ELSE s1

\* CandleBuilder.handle1mCandle, part_001:235-305
\* handle1mCandle without the gap check of part_001:245-263
handle1mCandleSilent(st, candle) ==
    IF ~isValidTimestamp(candle.timestamp, "1m") THEN st
    ELSE [st EXCEPT !.lastProcessed1m = <<candle.timestamp>>,
                    !.accumulator1m = Append(@, candle),
                    !.fed = Append(@, candle)]

handle1mCandle(st, candle) ==
    IF ~isValidTimestamp(candle.timestamp, "1m") THEN st
    ELSE
    LET gap == st.lastProcessed1m # <<>>
               /\ candle.timestamp # st.lastProcessed1m[1] + TIMEFRAME_MS("1m")
        s1 == [st EXCEPT
                 !.gapReports = IF gap
                                THEN Append(@, <<"1m", st.lastProcessed1m[1], candle.timestamp>>)
                                ELSE @,
                 !.lastProcessed1m = <<candle.timestamp>>,
                 !.accumulator1m = Append(@, candle),
                 !.fed = Append(@, candle)]
        acc == s1.accumulator1m
    IN  IF ~isTimeAligned(candle.timestamp, "6m") THEN s1
        ELSE IF Len(acc) = AGGREGATION_1M_TO_6M
        THEN LET candle6m == aggregate(acc)
                 s2 == StoreAdd(s1, "6m", candle6m)
                 s3 == [s2 EXCEPT !.completed6m = Append(@, candle6m),
                                  !.groups = Append(@, [tf |-> "6m", from |-> Timestamps(acc)]),
                                  !.accumulator1m = <<>>]
             IN  handle6mCandle(s3, candle6m)
        ELSE IF Len(acc) > AGGREGATION_1M_TO_6M
        THEN [s1 EXCEPT !.accumulator1m = <<>>]
        ELSE s1

\* The handlers' result written back to the variables.
Becomes(st) ==
    /\ accumulator1m' = st.accumulator1m
    /\ accumulator6m' = st.accumulator6m
    /\ lastProcessed1m' = st.lastProcessed1m
    /\ lastProcessed6m' = st.lastProcessed6m
    /\ candles' = st.candles
    /\ totalCounts' = st.totalCounts
    /\ completed6m' = st.completed6m
    /\ completed24m' = st.completed24m
    /\ gapReports' = st.gapReports
    /\ fed' = st.fed
    /\ groups' = st.groups

\* CandleBuilder.initializeFromHistory, part_001:455-490
initializeFromHistory(st) ==
    LET last1m == getLastN(st, "1m", AGGREGATION_1M_TO_6M)
        s1 == IF /\ Len(last1m) > 0
                 /\ Len(last1m) < AGGREGATION_1M_TO_6M
                 /\ isTimeAligned(last1m[1].timestamp, "6m")
              THEN [st EXCEPT !.accumulator1m = last1m,
                              !.lastProcessed1m = <<last1m[Len(last1m)].timestamp>>]
              ELSE st
        last6m == getLastN(s1, "6m", AGGREGATION_6M_TO_24M)
    IN  IF /\ Len(last6m) > 0
           /\ Len(last6m) < AGGREGATION_6M_TO_24M
           /\ isTimeAligned(last6m[1].timestamp, "24m")
        THEN [s1 EXCEPT !.accumulator6m = last6m,
                        !.lastProcessed6m = <<last6m[Len(last6m)].timestamp>>]
        ELSE s1

RECURSIVE StoreAddAll(_, _, _)
StoreAddAll(st, tf, cs) ==
    IF cs = <<>> THEN st
    ELSE LET next == StoreAdd(st, tf, Head(cs))
         IN  IF next.totalCounts[tf] >= 0 THEN StoreAddAll(next, tf, Tail(cs)) ELSE st

\* Whether the candles follow each other at the step of their timeframe
\* (isSequential, part_003:376-384 and 414-422).
isSequential(group, tf) ==
    \A j \in 2..Len(group) :
        group[j].timestamp = group[j - 1].timestamp + TIMEFRAME_MS(tf)

\* The loops of initializeCandleData that form the candles of the next tier
\* (part_003:372-399 from 1m, 410-437 from 6m): groups of `count` stored
\* candles taken from index i on.
RECURSIVE FormFromHistory(_, _, _, _, _, _)
FormFromHistory(st, all, i, count, from, to) ==
    IF i + count - 1 > Len(all) THEN st
    ELSE LET group == SubSeq(all, i, i + count - 1)
             s1 == IF isSequential(group, from)
                   THEN [StoreAdd(st, to, aggregate(group)) EXCEPT
                           !.groups = Append(@, [tf |-> to, from |-> Timestamps(group)])]
                   ELSE st
         IN  FormFromHistory(s1, all, i + count, count, from, to)

\* A run of n 1m candles from minute s on, as getCandles returns it.
History(s, n) == [i \in 1..n |-> VenueCandle((s + i - 1) * TIMEFRAME_1M)]

\* The same run with its second candle missing: the venue has no candle for
\* that minute (the loops of initializeCandleData test for this, part_003:376-384).
Holed(h) == [i \in 1..(Len(h) - 1) |-> IF i < 2 THEN h[i] ELSE h[i + 1]]

\* The histories that may come with a hole
HoledLengths == {3}

\* initializeCandleData, part_003:347-473
initializeCandleData ==
    /\ ~booted
    /\ \E s \in 0..MaxStart, n \in HistoryLengths, holed \in BOOLEAN :
          LET h == IF holed /\ n \in HoledLengths THEN Holed(History(s, n)) ELSE History(s, n)
              s1 == StoreAddAll(CandleState, "1m", h)
              s2 == FormFromHistory(s1, s1.candles["1m"], 1, AGGREGATION_1M_TO_6M, "1m", "6m")
              s3 == FormFromHistory(s2, s2.candles["6m"], 1, AGGREGATION_6M_TO_24M, "6m", "24m")
              s4 == initializeFromHistory(s3)
          IN  /\ Becomes(s4)
              /\ startedEmpty' = (s4.accumulator1m = <<>> /\ s4.accumulator6m = <<>>)
              /\ feedPos' = s + n - 1
    /\ booted' = TRUE
    /\ UNCHANGED resets

\* Polls that did not return the next minute's candle, as far as they left a trace.
Irregular ==
    Cardinality({i \in 1..Len(gapReports) : gapReports[i][1] = "1m"})
      + Cardinality({i \in 1..Len(candles["1m"]) :
                        candles["1m"][i].timestamp % TIMEFRAME_1M # 0})

\* The callback of startCandleUpdater, part_003:483-522, with the candle the
\* venue returns: the one polled before (step 0), the next minute's (step 1),
\* a later one when a poll was missed (step 2), or one with a timestamp off
\* the minute grid (offset 30000).
updater(step, offset) ==
    /\ booted
    /\ feedPos + step <= MaxMinute
    /\ feedPos + step >= 0
    /\ (step = 2 \/ offset # 0) => Irregular < MaxGaps
    /\ LET newCandle == VenueCandle((feedPos + step) * TIMEFRAME_1M + offset)
           last == candles["1m"]
       IN  IF last # <<>> /\ last[Len(last)].timestamp = newCandle.timestamp
           THEN UNCHANGED <<accumulator1m, accumulator6m, lastProcessed1m,
                            lastProcessed6m, candles, totalCounts, completed6m,
                            completed24m, gapReports, fed, groups>>
           ELSE Becomes(handle1mCandle(StoreAdd(CandleState, "1m", newCandle), newCandle))
    /\ feedPos' = feedPos + step
    /\ UNCHANGED <<booted, resets, startedEmpty>>

\* CandleBuilder.reset, part_001:520-526. The event logs and the ghosts start
\* over with the emptied builder.
reset ==
    /\ resets < MaxResets
    /\ accumulator1m' = <<>>
    /\ accumulator6m' = <<>>
    /\ lastProcessed1m' = <<>>
    /\ lastProcessed6m' = <<>>
    /\ fed' = <<>>
    /\ completed6m' = <<>>
    /\ completed24m' = <<>>
    /\ resets' = resets + 1
    /\ startedEmpty' = TRUE
    /\ UNCHANGED <<candles, totalCounts, gapReports, groups, feedPos, booted>>

CandleInit ==
    /\ accumulator1m = <<>>
    /\ accumulator6m = <<>>
    /\ lastProcessed1m = <<>>
    /\ lastProcessed6m = <<>>
    /\ candles = [tf \in Timeframes |-> <<>>]
    /\ totalCounts = [tf \in Timeframes |-> 0]
    /\ completed6m = <<>>
    /\ completed24m = <<>>
    /\ gapReports = <<>>
    /\ fed = <<>>
    /\ groups = <<>>
    /\ feedPos = -1
    /\ booted = FALSE
    /\ resets = 0
    /\ startedEmpty = TRUE

CandleNext ==
    \/ initializeCandleData /\ UNCHANGED <<bookVars, wsVars, storeVars, resyncVars, restVars>>
    \/ \E step \in 0..2 : updater(step, 0) /\ UNCHANGED <<bookVars, wsVars, storeVars, resyncVars, restVars>>
    \/ updater(0, 30000) /\ UNCHANGED <<bookVars, wsVars, storeVars, resyncVars, restVars>>
    \/ reset /\ UNCHANGED <<bookVars, wsVars, storeVars, resyncVars, restVars>>

----------------------------------------------------------------------------
\* TickStore (part_003:43-290), CandleStore.clear (part_002:218-227) and the
\* direct use of the two stores' buffers

\* STORAGE.TICK_STORE.MAX_SIZE, part_007:853-855
TICK_STORE_MAX_SIZE == 1000

SmallTickSize == 2    \* a TickStore constructed with a small maxSize
Extra == 2            \* additions beyond the capacity of the buffer in use
MaxShort == 3         \* clear() is called within the first MaxShort additions
MaxClears == 1        \* clear() calls in a run

\* new TickStore(symbol, maxSize), part_003:54-57
TickSizes == {SmallTickSize, TICK_STORE_MAX_SIZE}

\* The n-th tick the venue publishes for the symbol of the store.
VenueTick(n) ==
    [symbol |-> "ETH_USDT", price |-> 3820 + (n % 3), volume |-> 1 + (n % 2),
     timestamp |-> n]

\* Array.prototype.slice(start) with one argument: a negative start counts
\* from the end, and -0 is 0.
slice(array, start) ==
    LET begin == IF start < 0 THEN Max({Len(array) + start, 0}) ELSE Min({start, Len(array)})
    IN  SubSeq(array, begin + 1, Len(array))

\* The TickStore as one record.
TickState == [ticks |-> ticks, tickCount |-> tickCount, maxSize |-> maxSize]

\* TickStore.add as it would be without the eviction.
TickStoreAddKeepsAll(st, tick) ==
    [st EXCEPT !.ticks = Append(st.ticks, tick), !.tickCount = @ + 1]

\* TickStore.add, part_003:84-92
TickStoreAdd(st, tick) ==
    LET pushed == Append(st.ticks, tick)
    IN  [st EXCEPT !.ticks = IF Len(pushed) > st.maxSize THEN Tail(pushed) ELSE pushed,
                   !.tickCount = @ + 1]

\* TickStore.getLastN, part_003:125-131
TickStoreGetLastN(st, count) ==
    IF count >= Len(st.ticks) THEN st.ticks ELSE slice(st.ticks, -count)

\* TickStore.clear, part_003:256-259
TickStoreClear(st) == [st EXCEPT !.ticks = <<>>]

\* CandleStore.clear(timeframe), part_002:218-222
StoreClear(st, tf) == [st EXCEPT !.candles[tf] = <<>>]

\* CandleStore.clear(), part_002:223-226
StoreClearAll(st) ==
    [st EXCEPT !.candles = [tf \in Timeframes |-> <<>>],
               !.totalCounts = [tf \in Timeframes |-> 0]]

\* The capacity of the buffer the run adds to.
Capacity == IF driven = "tick" THEN maxSize ELSE bufferSizes(driven)

\* tickStore.add(tick), as the listener of "data:tick:received" calls it
\* (part_003:70-77)
AddTick ==
    /\ driven = "tick"
    /\ accepted < Capacity + Extra
    /\ LET s == TickStoreAdd(TickState, VenueTick(accepted))
       IN  /\ ticks' = s.ticks
           /\ tickCount' = s.tickCount
    /\ accepted' = accepted + 1
    /\ UNCHANGED <<maxSize, driven, clears, candles, totalCounts>>

\* tickStore.clear()
ClearTicks ==
    /\ driven = "tick"
    /\ clears < MaxClears
    /\ accepted <= MaxShort
    /\ ticks' = TickStoreClear(TickState).ticks
    /\ clears' = clears + 1
    /\ UNCHANGED <<tickCount, maxSize, driven, accepted, candles, totalCounts>>

\* candleStore.add(tf, candle) with the next candle of the timeframe, or once
\* more with the candle added last
AddCandle ==
    /\ driven \in Timeframes
    /\ accepted < Capacity + Extra
    /\ \E again \in BOOLEAN :
          LET buffer == candles[driven]
              candle == IF again /\ buffer # <<>> THEN buffer[Len(buffer)]
                        ELSE VenueCandle(accepted * TIMEFRAME_MS(driven))
              s == StoreAdd(CandleState, driven, candle)
          IN  /\ candles' = s.candles
              /\ totalCounts' = s.totalCounts
              /\ accepted' = IF s.candles = candles THEN accepted ELSE accepted + 1
    /\ UNCHANGED <<ticks, tickCount, maxSize, driven, clears>>

\* candleStore.clear(tf) and candleStore.clear()
ClearCandles ==
    /\ driven \in Timeframes
    /\ clears < MaxClears
    /\ accepted <= MaxShort
    /\ \E all \in BOOLEAN :
          LET s == IF all THEN StoreClearAll(CandleState) ELSE StoreClear(CandleState, driven)
          IN  /\ candles' = s.candles
              /\ totalCounts' = s.totalCounts
    /\ clears' = clears + 1
    /\ UNCHANGED <<ticks, tickCount, maxSize, driven, accepted>>

\* The stores as constructed and not added to directly.
StoreIdle ==
    /\ ticks = <<>>
    /\ tickCount = 0
    /\ maxSize = TICK_STORE_MAX_SIZE
    /\ driven = "none"
    /\ accepted = 0
    /\ clears = 0

StoreInit ==
    /\ ticks = <<>>
    /\ tickCount = 0
    /\ accepted = 0
    /\ clears = 0
    /\ driven \in {"tick"} \cup Timeframes
    /\ maxSize \in (IF driven = "tick" THEN TickSizes ELSE {TICK_STORE_MAX_SIZE})

StoreUnused ==
    UNCHANGED <<bookVars, wsVars, resyncVars, restVars, accumulator1m, accumulator6m, lastProcessed1m,
                lastProcessed6m, completed6m, completed24m, gapReports, fed,
                groups, feedPos, booted, resets, startedEmpty>>

StoreNext ==
    \/ AddTick /\ StoreUnused
    \/ ClearTicks /\ StoreUnused
    \/ AddCandle /\ StoreUnused
    \/ ClearCandles /\ StoreUnused

----------------------------------------------------------------------------
\* GateioWebSocket: the streaming session (part_005) and the `ws` transports

\* GateioWebSocket constants, part_005:65-68, and the configuration the
\* program constructs the session with, part_003:328-334
DEFAULT_PING_INTERVAL == 15000
DEFAULT_PONG_TIMEOUT == 30000
DEFAULT_RECONNECT_INTERVAL == 5000
MAX_RECONNECT_INTERVAL == 60000

\* this.config as the constructor completes it (part_005:91-101) from what
\* index.ts passes (part_003:328-334)
HostConfig ==
    [pingInterval |-> 15000, pongTimeout |-> 30000,
     reconnectInterval |-> DEFAULT_RECONNECT_INTERVAL,
     maxReconnectInterval |-> MAX_RECONNECT_INTERVAL,
     maxReconnectAttempts |-> 10]

\* Two other configurations a caller may construct the session with: a
\* reconnect cap small enough to be reached, and a pong timeout shorter than
\* the ping interval.
SmallCap == 2
ShortPongTimeout == 5000
Configs ==
    {HostConfig,
     [HostConfig EXCEPT !.maxReconnectAttempts = SmallCap],
     [HostConfig EXCEPT !.pongTimeout = ShortPongTimeout]}

\* A configuration whose backoff ceiling the second doubling passes
LowCeiling == 15000
BackoffConfig ==
    [HostConfig EXCEPT !.pongTimeout = ShortPongTimeout,
                       !.maxReconnectInterval = LowCeiling]

\* GATEIO.WS_CHANNELS, in the order subscribe() requests them (part_005:160-167)
Channels == <<"spot.tickers", "spot.order_book_update">>

MaxTransports == 3    \* WebSocket objects created in a run
MaxDisconnects == 2   \* disconnect() calls in a run

\* The session object and what surrounds it, as one record
SessionState ==
    [ws |-> ws, isConnected |-> isConnected, shouldReconnect |-> shouldReconnect,
     subscriptions |-> subscriptions, reconnectAttempts |-> reconnectAttempts,
     currentReconnectInterval |-> currentReconnectInterval,
     reconnectTimer |-> reconnectTimer, pingTimer |-> pingTimer,
     pongTimer |-> pongTimer, config |-> config,
     transports |-> transports, timers |-> timers, tasks |-> tasks,
     reconnecting |-> reconnecting, process |-> process,
     disconnects |-> disconnects, journal |-> <<>>]

SessionBecomes(s) ==
    /\ ws' = s.ws
    /\ isConnected' = s.isConnected
    /\ shouldReconnect' = s.shouldReconnect
    /\ subscriptions' = s.subscriptions
    /\ reconnectAttempts' = s.reconnectAttempts
    /\ currentReconnectInterval' = s.currentReconnectInterval
    /\ reconnectTimer' = s.reconnectTimer
    /\ pingTimer' = s.pingTimer
    /\ pongTimer' = s.pongTimer
    /\ config' = s.config
    /\ transports' = s.transports
    /\ timers' = s.timers
    /\ tasks' = s.tasks
    /\ reconnecting' = s.reconnecting
    /\ process' = s.process
    /\ disconnects' = s.disconnects
    /\ journal' = s.journal

\* clearInterval / clearTimeout on the handle a field holds: the timer the
\* field refers to is removed if it is still pending, and the field is nulled
\* by the caller's assignment.
clearTimer(s, kind) ==
    [s EXCEPT !.timers = SelectSeq(@, LAMBDA x : ~(x.kind = kind /\ x.held)),
              ![kind] = FALSE]

\* this.<kind> = setInterval / setTimeout(..., delay): a new pending timer; a
\* timer the field referred to before stays pending without a handle.
setTimer(s, kind, delay) ==
    LET old == s.timers
    IN  [s EXCEPT !.timers =
                     Append([j \in 1..Len(old) |->
                                IF old[j].kind = kind
                                THEN [old[j] EXCEPT !.held = FALSE] ELSE old[j]],
                            [kind |-> kind, left |-> delay, delay |-> delay, held |-> TRUE,
                             seq |-> Len(s.reconnecting)]),
                  ![kind] = TRUE]

\* eventBus.emitSafe(name, ...) by the session
emitSafe(s, name) == [s EXCEPT !.journal = Append(@, name)]

\* The logger.error line of scheduleReconnect, part_005:592-595: written to
\* the log, not to the bus.
LimitLine == "log:reconnect limit reached"

\* GateioWebSocket.cleanup, part_005:630-645
cleanup(s) ==
    LET s1 == IF s.pingTimer THEN clearTimer(s, "pingTimer") ELSE s
        s2 == IF s1.pongTimer THEN clearTimer(s1, "pongTimer") ELSE s1
    IN  IF s2.reconnectTimer THEN clearTimer(s2, "reconnectTimer") ELSE s2

\* GateioWebSocket.sendPing, part_005:535-554.  WebSocket.ping() throws on a
\* transport that is still connecting; nothing catches it in the timer or
\* the open handler, so the process ends.  On a closing or closed transport
\* the ping is dropped.
sendPing(s) ==
    IF s.ws = 0 \/ ~s.isConnected THEN s
    ELSE IF s.transports[s.ws].state = "connecting"
    THEN [s EXCEPT !.process = "crashed"]
    ELSE LET s0 == [s EXCEPT !.transports[s.ws].pinged =
                                 @ \/ s.transports[s.ws].state = "open"]
             s1 == emitSafe(s0, "exchange:ping:sent")
             s2 == IF s1.pongTimer THEN clearTimer(s1, "pongTimer") ELSE s1
         IN  setTimer(s2, "pongTimer", s.config.pongTimeout)

\* GateioWebSocket.startPingPong, part_005:525-533
startPingPong(s) == sendPing(setTimer(cleanup(s), "pingTimer", s.config.pingInterval))

\* handleOpen as it would be without the reset of the backoff interval.
handleOpenKeepsInterval(s) ==
    startPingPong(emitSafe([s EXCEPT !.isConnected = TRUE,
                                     !.reconnectAttempts = 0],
                           "exchange:connected"))

\* GateioWebSocket.handleOpen, part_005:196-214 (resolve() is the caller's step)
handleOpen(s) ==
    startPingPong(emitSafe([s EXCEPT !.isConnected = TRUE,
                                     !.reconnectAttempts = 0,
                                     !.currentReconnectInterval = s.config.reconnectInterval],
                           "exchange:connected"))

\* GateioWebSocket.scheduleReconnect, part_005:587-626 (the timer's callback
\* is ReconnectTimerFires)
scheduleReconnect(s) ==
    IF /\ s.config.maxReconnectAttempts > 0
       /\ s.reconnectAttempts >= s.config.maxReconnectAttempts
    THEN [s EXCEPT !.journal = Append(@, LimitLine)]
    ELSE LET delay == Min({s.currentReconnectInterval * 2, s.config.maxReconnectInterval})
             s1 == [s EXCEPT !.reconnectAttempts = @ + 1,
                             !.currentReconnectInterval = delay,
                             !.reconnecting =
                                 Append(@, [attempt |-> s.reconnectAttempts + 1,
                                            delay |-> delay,
                                            afterDisconnect |-> s.disconnects > 0,
                                            recovered |-> FALSE])]
         IN  setTimer(emitSafe(s1, "exchange:reconnecting"), "reconnectTimer", delay)

\* GateioWebSocket.handleClose, part_005:216-237
handleClose(s) ==
    LET s1 == emitSafe(cleanup([s EXCEPT !.isConnected = FALSE]), "exchange:disconnected")
    IN  IF s1.shouldReconnect THEN scheduleReconnect(s1) ELSE s1

\* An async call that ended by throwing.  The reconnect timer's callback
\* catches and calls scheduleReconnect (part_005:621-624); main's catch ends
\* the process (part_003:669-674).
taskFails(s, k) ==
    LET s1 == [s EXCEPT !.tasks = RemoveAt(@, k)]
    IN  IF s.tasks[k].origin = "reconnect"
        THEN scheduleReconnect(s1)
        ELSE [s1 EXCEPT !.process = "exited"]

\* GateioWebSocket.subscribeChannel up to its await, part_005:459-481, and
\* the setInterval of waitForSubscription, part_005:499-521.  WebSocket.send()
\* throws on a transport that is still connecting and drops the frame on a
\* closing or closed one.
subscribeChannel(s, k, c) ==
    IF s.ws = 0 \/ ~s.isConnected THEN taskFails(s, k)
    ELSE LET s1 == [s EXCEPT !.subscriptions = MapSet(@, Channels[c], "pending")]
             state == s.transports[s.ws].state
         IN  IF state = "connecting" THEN taskFails(s1, k)
             ELSE [s1 EXCEPT !.transports[s.ws].subSent =
                                 IF state = "open" THEN @ \cup {Channels[c]} ELSE @,
                             !.tasks[k] = [@ EXCEPT !.pc = "wait", !.channel = c,
                                                    !.since = Len(s.reconnecting)]]

\* GateioWebSocket.subscribe up to its first await, part_005:150-162
subscribe(s, k) ==
    IF ~s.isConnected THEN taskFails(s, k) ELSE subscribeChannel(s, k, 1)

\* GateioWebSocket.connect, part_005:113-133: a new transport replaces this.ws
connect(s, origin) ==
    [s EXCEPT !.transports = Append(@, [state |-> "connecting", subSent |-> {},
                                        pinged |-> FALSE,
                                        afterDisconnect |-> s.disconnects > 0]),
              !.ws = Len(s.transports) + 1,
              !.tasks = Append(@, [origin |-> origin, pc |-> "connect",
                                   t |-> Len(s.transports) + 1, channel |-> 0,
                                   since |-> 0])]

\* WebSocket.close() / terminate(): the close (or error and close) event
\* follows in a later turn of the event loop.
shutTransport(s, t) ==
    IF t = 0 THEN s
    ELSE [s EXCEPT !.transports[t].state =
                       CASE @ = "open" -> "closing"
                         [] @ = "connecting" -> "aborted"
                         [] OTHER -> @]

Running == process = "running"

\* main calls connect() once, part_003:659
mainConnect ==
    /\ Running
    /\ transports = <<>>
    /\ disconnects = 0
    /\ SessionBecomes(connect(SessionState, "main"))
    /\ UNCHANGED <<pongTimeoutFired, pongReceived, ready>>

\* The "open" event of transport t: handleOpen, then the awaiting caller goes
\* on to subscribe() (part_003:660, part_005:620).
TransportOpens(t) ==
    /\ Running
    /\ transports[t].state = "connecting"
    /\ LET s1 == handleOpen([SessionState EXCEPT !.transports[t].state = "open"])
       IN  \E k \in 1..Len(tasks) :
              /\ tasks[k].pc = "connect" /\ tasks[k].t = t
              /\ SessionBecomes(IF s1.process = "running" THEN subscribe(s1, k) ELSE s1)
    /\ UNCHANGED <<pongTimeoutFired, pongReceived, ready>>

\* The connection attempt of transport t fails: `ws` emits "error" and then
\* "close".  handleError (part_005:239-252) rejects connect(); whether the
\* awaiting caller resumes before or after the close handler depends on the
\* two events being emitted in one turn or in two.
TransportFails(t) ==
    /\ Running
    /\ transports[t].state \in {"connecting", "aborted"}
    /\ LET s0 == emitSafe([SessionState EXCEPT !.transports[t].state = "closed"],
                          "exchange:error")
       IN  \E k \in 1..Len(tasks), oneTurn \in BOOLEAN :
              /\ tasks[k].pc = "connect" /\ tasks[k].t = t
              /\ SessionBecomes(IF oneTurn
                                THEN taskFails(handleClose(s0), k)
                                ELSE LET s1 == taskFails(s0, k)
                                     IN  IF s1.process = "running" THEN handleClose(s1) ELSE s1)
    /\ UNCHANGED <<pongTimeoutFired, pongReceived, ready>>

\* The "close" event of an open transport: the venue or the network ended
\* it, or close()/terminate() completed.
TransportCloses(t) ==
    /\ Running
    /\ transports[t].state \in {"open", "closing"}
    /\ SessionBecomes(handleClose([SessionState EXCEPT
                                      !.transports[t] = [@ EXCEPT !.state = "closed",
                                                                  !.subSent = {},
                                                                  !.pinged = FALSE]]))
    /\ UNCHANGED <<pongTimeoutFired, pongReceived, ready>>

\* handleMessage -> handleSubscribeEvent, part_005:303-315
SubscribeAck(t, ch) ==
    /\ Running
    /\ transports[t].state = "open"
    /\ ch \in transports[t].subSent
    /\ SessionBecomes(emitSafe([SessionState EXCEPT
                                    !.transports[t].subSent = @ \ {ch},
                                    !.subscriptions = MapSet(@, ch, "subscribed")],
                                "exchange:subscribed"))
    /\ UNCHANGED <<pongTimeoutFired, pongReceived, ready>>

\* handleMessage -> handleErrorEvent, part_005:354-376
SubscribeError(t, ch) ==
    /\ Running
    /\ transports[t].state = "open"
    /\ ch \in transports[t].subSent
    /\ SessionBecomes(emitSafe([SessionState EXCEPT
                                    !.transports[t].subSent = @ \ {ch},
                                    !.subscriptions = MapSet(@, ch, "failed")],
                                "exchange:error"))
    /\ UNCHANGED <<pongTimeoutFired, pongReceived, ready>>

\* The "pong" event of transport t: handlePong, part_005:556-571
handlePong(t) ==
    /\ Running
    /\ transports[t].state = "open"
    /\ transports[t].pinged
    /\ LET s1 == [SessionState EXCEPT !.transports[t].pinged = FALSE]
       IN  SessionBecomes(emitSafe(IF s1.pongTimer THEN clearTimer(s1, "pongTimer") ELSE s1,
                                   "exchange:pong:received"))
    /\ pongReceived' = TRUE
    /\ UNCHANGED <<pongTimeoutFired, ready>>

\* The reconnect callback ran to its end (part_005:619-620): the reconnect
\* announced last is marked as the one that recovered the session.
reconnectDone(s, k) ==
    LET n == Len(s.reconnecting)
    IN  [s EXCEPT !.tasks = RemoveAt(@, k),
                  !.reconnecting =
                      IF s.tasks[k].origin = "reconnect" /\ n > 0
                      THEN [@ EXCEPT ![n].recovered = TRUE] ELSE @]

\* One run of the 100 ms check of waitForSubscription (part_005:506-519) that
\* settles the wait, and what the caller does next: the second channel
\* (part_005:164-167) or the end of subscribe().  timedOut: more than 5000 ms
\* have passed since the request.
Poll(k, timedOut) ==
    /\ Running
    /\ tasks[k].pc = "wait"
    /\ LET ch == Channels[tasks[k].channel]
           status == IF ch \in DOMAIN subscriptions THEN subscriptions[ch] ELSE "undefined"
           s == SessionState
       IN  /\ status \in {"subscribed", "failed"} \/ timedOut
           /\ IF status = "subscribed"
              THEN IF tasks[k].channel < Len(Channels)
                   THEN /\ SessionBecomes(subscribeChannel(s, k, tasks[k].channel + 1))
                        /\ UNCHANGED ready
                   ELSE /\ SessionBecomes(reconnectDone(s, k))
                        /\ ready' = (ready \/ tasks[k].origin = "main")
              ELSE /\ SessionBecomes(taskFails(s, k))
                   /\ UNCHANGED ready
    /\ UNCHANGED <<pongTimeoutFired, pongReceived>>

\* Timers of the heartbeat run on the clock; the others fire at any time.
Clocked(x) == x.kind \in {"pingTimer", "pongTimer"}

\* Time passes until the next heartbeat timer is due.
TimePasses ==
    /\ Running
    /\ \E i \in 1..Len(timers) : Clocked(timers[i])
    /\ \A i \in 1..Len(timers) : Clocked(timers[i]) => timers[i].left > 0
    /\ LET d == Min({timers[i].left : i \in {j \in 1..Len(timers) : Clocked(timers[j])}})
       IN  timers' = [i \in 1..Len(timers) |->
                         IF Clocked(timers[i])
                         THEN [timers[i] EXCEPT !.left = @ - d] ELSE timers[i]]
    /\ journal' = <<>>
    /\ UNCHANGED <<ws, isConnected, shouldReconnect, subscriptions, reconnectAttempts,
                   currentReconnectInterval, reconnectTimer, pingTimer, pongTimer,
                   config, transports, tasks, reconnecting, process,
                   disconnects, pongTimeoutFired, pongReceived, ready>>

\* The callback of setInterval in startPingPong, part_005:528-530
PingTimerFires(i) ==
    /\ Running
    /\ timers[i].kind = "pingTimer"
    /\ timers[i].left = 0
    /\ SessionBecomes(sendPing([SessionState EXCEPT !.timers[i].left = timers[i].delay]))
    /\ UNCHANGED <<pongTimeoutFired, pongReceived, ready>>

\* GateioWebSocket.handlePongTimeout, part_005:573-583
handlePongTimeout(i) ==
    /\ Running
    /\ timers[i].kind = "pongTimer"
    /\ timers[i].left = 0
    /\ SessionBecomes(shutTransport(emitSafe([SessionState EXCEPT !.timers = RemoveAt(@, i)],
                                              "exchange:pong:timeout"), ws))
    /\ pongTimeoutFired' = TRUE
    /\ UNCHANGED <<pongReceived, ready>>

\* The callback of setTimeout in scheduleReconnect, part_005:617-625, up to
\* its first await.  A reconnect delay is at least twice reconnectInterval,
\* which is longer than a subscription wait (5000 ms and one poll): the waits
\* that were running when the timer was set have settled when it fires.
ReconnectTimerFires(i) ==
    /\ Running
    /\ timers[i].kind = "reconnectTimer"
    /\ \A k \in 1..Len(tasks) : tasks[k].pc = "wait" => tasks[k].since >= timers[i].seq
    /\ Len(transports) < MaxTransports
    /\ SessionBecomes(connect([SessionState EXCEPT !.timers = RemoveAt(@, i)], "reconnect"))
    /\ UNCHANGED <<pongTimeoutFired, pongReceived, ready>>

\* GateioWebSocket.disconnect, part_005:135-148
disconnect ==
    /\ Running
    /\ disconnects < MaxDisconnects
    /\ LET s1 == cleanup([SessionState EXCEPT !.shouldReconnect = FALSE,
                                              !.disconnects = @ + 1])
       IN  SessionBecomes([shutTransport(s1, s1.ws) EXCEPT !.ws = 0,
                                                         !.isConnected = FALSE,
                                                         !.subscriptions = EmptyMap])
    /\ UNCHANGED <<pongTimeoutFired, pongReceived, ready>>

\* The session as constructed from configuration c (part_005:71-103)
SessionInit(c) ==
    /\ ws = 0
    /\ isConnected = FALSE
    /\ shouldReconnect = TRUE
    /\ subscriptions = EmptyMap
    /\ reconnectAttempts = 0
    /\ currentReconnectInterval = c.reconnectInterval
    /\ reconnectTimer = FALSE
    /\ pingTimer = FALSE
    /\ pongTimer = FALSE
    /\ config = c
    /\ transports = <<>>
    /\ timers = <<>>
    /\ tasks = <<>>
    /\ reconnecting = <<>>
    /\ process = "running"
    /\ disconnects = 0
    /\ journal = <<>>
    /\ pongTimeoutFired = FALSE
    /\ pongReceived = FALSE
    /\ ready = FALSE

SessionIdle == SessionInit(HostConfig)

\* An inbound frame: whether it is JSON text, whether the parsed value is an
\* object (JSON.parse also returns null and primitives), its channel and
\* event ("" when absent), what its result holds and whether it has an error
\* member.
WSFrame(json, object, channel, event, result, error) ==
    [json |-> json, object |-> object, channel |-> channel, event |-> event,
     result |-> result, error |-> error]

\* The tickers of a result (one object or an array, part_005:381) with
\* whether each passes isValidTicker (part_005:434-444).
ResultTickers(result) ==
    CASE result = "ticker" -> <<TRUE>>
      [] result = "badTicker" -> <<FALSE>>
      [] result = "tickers" -> <<FALSE, TRUE>>
      [] OTHER -> <<FALSE>>

\* GateioWebSocket.handleTickers, part_005:380-403
RECURSIVE handleTickers(_, _)
handleTickers(s, valid) ==
    IF valid = <<>> THEN s
    ELSE handleTickers(emitSafe(s, IF Head(valid) THEN "data:tick:received"
                                   ELSE "log:invalid ticker"),
                       Tail(valid))

\* GateioWebSocket.handleUpdateEvent, part_005:331-352, with
\* handleOrderBookUpdate (406-430) and isValidOrderBookUpdate (446-455).  A
\* result of the right shape whose levels are not pairs makes the map callback
\* throw; handleMessage catches it.
handleUpdateEvent(s, message) ==
    IF message.result = "absent" THEN emitSafe(s, "log:update without result")
    ELSE IF message.channel = "spot.tickers"
    THEN handleTickers(s, ResultTickers(message.result))
    ELSE IF message.channel = "spot.order_book_update"
    THEN CASE message.result = "book" -> emitSafe(s, "data:orderbook:updated")
           [] message.result = "brokenBook" -> emitSafe(s, "log:parse error")
           [] OTHER -> emitSafe(s, "log:invalid orderbook")
    ELSE s

\* handleMessage as it would be if a frame that does not parse ended the
\* connection.
handleMessageStrict(s, frame) ==
    [s EXCEPT !.isConnected = FALSE]

\* GateioWebSocket.handleMessage, part_005:256-301, with handleSubscribeEvent
\* (303-315), handleUnsubscribeEvent (317-329) and handleErrorEvent (354-376)
handleMessage(s, frame) ==
    IF ~frame.json \/ ~frame.object THEN emitSafe(s, "log:parse error")
    ELSE IF frame.channel = "" \/ frame.event = "" THEN emitSafe(s, "log:invalid message")
    ELSE CASE frame.event = "subscribe" ->
                 emitSafe([s EXCEPT !.subscriptions = MapSet(@, frame.channel, "subscribed")],
                          "exchange:subscribed")
           [] frame.event = "unsubscribe" ->
                 emitSafe([s EXCEPT !.subscriptions = MapDelete(@, frame.channel)],
                          "exchange:unsubscribed")
           [] frame.event = "update" -> handleUpdateEvent(s, frame)
           [] frame.event = "error" ->
                 IF ~frame.error THEN s
                 ELSE [emitSafe(s, "exchange:error")
                          EXCEPT !.subscriptions = MapSet(@, frame.channel, "failed")]
           [] OTHER -> emitSafe(s, "log:unknown event")

\* Frames the handler has to discard: not JSON, JSON null, no channel, no
\* event, an update without result, a ticker and an order-book result that
\* fail the validators.
MalformedFrames ==
    {WSFrame(FALSE, FALSE, "", "", "absent", FALSE),
     WSFrame(TRUE, FALSE, "", "", "absent", FALSE),
     WSFrame(TRUE, TRUE, "", "update", "ticker", FALSE),
     WSFrame(TRUE, TRUE, "spot.tickers", "", "ticker", FALSE),
     WSFrame(TRUE, TRUE, "spot.tickers", "update", "absent", FALSE),
     WSFrame(TRUE, TRUE, "spot.tickers", "update", "badTicker", FALSE),
     WSFrame(TRUE, TRUE, "spot.order_book_update", "update", "badBook", FALSE)}

\* Data frames: a ticker, an invalid ticker followed by a valid one, an
\* order-book update, one whose levels are not pairs, and an update of a
\* channel that was not asked for.
DataFrames ==
    {WSFrame(TRUE, TRUE, "spot.tickers", "update", "ticker", FALSE),
     WSFrame(TRUE, TRUE, "spot.tickers", "update", "tickers", FALSE),
     WSFrame(TRUE, TRUE, "spot.order_book_update", "update", "book", FALSE),
     WSFrame(TRUE, TRUE, "spot.order_book_update", "update", "brokenBook", FALSE),
     WSFrame(TRUE, TRUE, "spot.trades", "update", "ticker", FALSE)}

\* The "message" event of transport t with the given frame, part_005:127-129
FrameHandled(t, frame) ==
    /\ Running
    /\ transports[t].state = "open"
    /\ SessionBecomes(handleMessage(SessionState, frame))
    /\ UNCHANGED <<pongTimeoutFired, pongReceived, ready>>

FrameArrives(t) == \E frame \in MalformedFrames \cup DataFrames : FrameHandled(t, frame)

\* What happens to the session once main has started it
SessionEvents ==
    \/ mainConnect /\ UNCHANGED <<bookVars, candleVars, storeVars, resyncVars, restVars>>
    \/ \E t \in 1..Len(transports) : TransportOpens(t) /\ UNCHANGED <<bookVars, candleVars, storeVars, resyncVars, restVars>>
    \/ \E t \in 1..Len(transports) : TransportFails(t) /\ UNCHANGED <<bookVars, candleVars, storeVars, resyncVars, restVars>>
    \/ \E t \in 1..Len(transports) : TransportCloses(t) /\ UNCHANGED <<bookVars, candleVars, storeVars, resyncVars, restVars>>
    \/ \E t \in 1..Len(transports), c \in 1..Len(Channels) :
          SubscribeAck(t, Channels[c]) /\ UNCHANGED <<bookVars, candleVars, storeVars, resyncVars, restVars>>
    \/ \E t \in 1..Len(transports), c \in 1..Len(Channels) :
          SubscribeError(t, Channels[c]) /\ UNCHANGED <<bookVars, candleVars, storeVars, resyncVars, restVars>>
    \/ \E t \in 1..Len(transports) : handlePong(t) /\ UNCHANGED <<bookVars, candleVars, storeVars, resyncVars, restVars>>
    \/ \E k \in 1..Len(tasks), timedOut \in BOOLEAN :
          Poll(k, timedOut) /\ UNCHANGED <<bookVars, candleVars, storeVars, resyncVars, restVars>>
    \/ TimePasses /\ UNCHANGED <<bookVars, candleVars, storeVars, resyncVars, restVars>>
    \/ \E i \in 1..Len(timers) : PingTimerFires(i) /\ UNCHANGED <<bookVars, candleVars, storeVars, resyncVars, restVars>>
    \/ \E i \in 1..Len(timers) : handlePongTimeout(i) /\ UNCHANGED <<bookVars, candleVars, storeVars, resyncVars, restVars>>
    \/ \E i \in 1..Len(timers) : ReconnectTimerFires(i) /\ UNCHANGED <<bookVars, candleVars, storeVars, resyncVars, restVars>>

SessionNext ==
    \/ SessionEvents
    \/ disconnect /\ UNCHANGED <<bookVars, candleVars, storeVars, resyncVars, restVars>>

\* The first connection of the session, with data frames and malformed
\* frames among its events
\* Frames with event "error" that name a channel (part_005:355-376).  The
\* venue may send one on an open transport at any time.
ErrorFrames ==
    {WSFrame(TRUE, TRUE, Channels[c], "error", "absent", TRUE) : c \in 1..Len(Channels)}

ErrorFrameArrives(t) == \E frame \in ErrorFrames : FrameHandled(t, frame)

SessionFrames ==
    \/ mainConnect /\ UNCHANGED <<bookVars, candleVars, storeVars, resyncVars, restVars>>
    \/ \E t \in 1..Len(transports) : TransportOpens(t) /\ UNCHANGED <<bookVars, candleVars, storeVars, resyncVars, restVars>>
    \/ \E t \in 1..Len(transports) : TransportCloses(t) /\ UNCHANGED <<bookVars, candleVars, storeVars, resyncVars, restVars>>
    \/ \E t \in 1..Len(transports), c \in 1..Len(Channels) :
          SubscribeAck(t, Channels[c]) /\ UNCHANGED <<bookVars, candleVars, storeVars, resyncVars, restVars>>
    \/ \E t \in 1..Len(transports), c \in 1..Len(Channels) :
          SubscribeError(t, Channels[c]) /\ UNCHANGED <<bookVars, candleVars, storeVars, resyncVars, restVars>>
    \/ \E t \in 1..Len(transports) : handlePong(t) /\ UNCHANGED <<bookVars, candleVars, storeVars, resyncVars, restVars>>
    \/ \E k \in 1..Len(tasks), timedOut \in BOOLEAN : Poll(k, timedOut) /\ UNCHANGED <<bookVars, candleVars, storeVars, resyncVars, restVars>>
    \/ TimePasses /\ UNCHANGED <<bookVars, candleVars, storeVars, resyncVars, restVars>>
    \/ \E i \in 1..Len(timers) : PingTimerFires(i) /\ UNCHANGED <<bookVars, candleVars, storeVars, resyncVars, restVars>>
    \/ \E i \in 1..Len(timers) : handlePongTimeout(i) /\ UNCHANGED <<bookVars, candleVars, storeVars, resyncVars, restVars>>
    \/ \E t \in 1..Len(transports) : FrameArrives(t) /\ UNCHANGED <<bookVars, candleVars, storeVars, resyncVars, restVars>>

----------------------------------------------------------------------------
\* The specifications: one component runs, the others stay as constructed.

\* ---------------------------------------------------------------------------
\* EventBus (part_004:330-389): emitSafe over Node's EventEmitter.emit
\* ---------------------------------------------------------------------------

Handlers == 1..2      \* the handler functions a component may register
MaxRegistered == 3    \* registrations of the event at once
MaxEmits == 3         \* emissions in a run

BusIdle ==
    /\ listeners = <<>>
    /\ invoked = <<>>
    /\ busErrors = 0
    /\ emitted = 0

\* EventEmitter.emit calls the listeners synchronously in the order of
\* registration; an exception of a listener leaves emit at once, so the
\* listeners behind the first throwing one are not called.  The result is the
\* sequence of positions called from position i on.
RECURSIVE emit(_, _, _)
emit(ls, bad, i) ==
    IF i > Len(ls) THEN <<>>
    ELSE IF ls[i] \in bad THEN <<i>>
    ELSE <<i>> \o emit(ls, bad, i + 1)

\* emit threw: the last listener called was a throwing one
emitThrew(ls, bad) ==
    LET called == emit(ls, bad, 1)
    IN  called # <<>> /\ ls[called[Len(called)]] \in bad

\* subscribe(event, handler): this.on(event, handler)
busSubscribe(h) ==
    /\ Len(listeners) < MaxRegistered
    /\ listeners' = Append(listeners, h)
    /\ UNCHANGED <<invoked, busErrors, emitted>>

\* unsubscribe(event, handler): this.off removes the most recently added
\* registration of the handler
busUnsubscribe(h) ==
    /\ \E i \in 1..Len(listeners) : listeners[i] = h
    /\ LET last == CHOOSE i \in 1..Len(listeners) :
                       /\ listeners[i] = h
                       /\ \A j \in (i + 1)..Len(listeners) : listeners[j] # h
       IN  listeners' = SubSeq(listeners, 1, last - 1)
                        \o SubSeq(listeners, last + 1, Len(listeners))
    /\ invoked' = <<>>
    /\ UNCHANGED <<busErrors, emitted>>

\* emitSafe(event, ...args), with the handlers of `bad` throwing on these args
busEmitSafe(bad) ==
    /\ emitted < MaxEmits
    /\ emitted' = emitted + 1
    /\ invoked' = emit(listeners, bad, 1)
    /\ busErrors' = IF emitThrew(listeners, bad) THEN busErrors + 1 ELSE busErrors
    /\ UNCHANGED listeners

BusUnused ==
    UNCHANGED <<bookVars, candleVars, wsVars, storeVars, resyncVars, pollVars, futVars>>

BusNext ==
    \/ \E h \in Handlers : busSubscribe(h) /\ BusUnused
    \/ \E h \in Handlers : busUnsubscribe(h) /\ BusUnused
    \/ \E bad \in SUBSET Handlers : busEmitSafe(bad) /\ BusUnused

\* ---------------------------------------------------------------------------
\* The base-candle poll of index.ts (part_003:480-546)
\* ---------------------------------------------------------------------------

MaxPollErrors == 2    \* failed polls in a run

PollIdle ==
    /\ updaterTimer = FALSE
    /\ exitTimer = FALSE
    /\ exited = FALSE
    /\ pollErrors = 0

\* main(): initializeCandleData(), then startCandleUpdater() sets the interval
startCandleUpdater ==
    /\ ~exited
    /\ initializeCandleData
    /\ updaterTimer' = TRUE
    /\ UNCHANGED <<exitTimer, exited, pollErrors>>

\* a tick of the interval whose request succeeds (part_003:485-523)
PollSucceeds(step) ==
    /\ ~exited
    /\ updaterTimer
    /\ updater(step, 0)
    /\ UNCHANGED pollVars

\* a tick of the interval whose request throws (part_003:524-540):
\* the error is logged; isNetworkError(error) clears the interval and sets a
\* timeout of 5 s that calls process.exit(1)
PollFails(network) ==
    /\ ~exited
    /\ updaterTimer
    /\ pollErrors < MaxPollErrors
    /\ pollErrors' = pollErrors + 1
    /\ updaterTimer' = IF network THEN FALSE ELSE updaterTimer
    /\ exitTimer' = IF network THEN TRUE ELSE exitTimer
    /\ UNCHANGED <<exited, candleVars>>

\* the timeout of part_003:536-538
ExitTimerFires ==
    /\ ~exited
    /\ exitTimer
    /\ exitTimer' = FALSE
    /\ exited' = TRUE
    /\ UNCHANGED <<updaterTimer, pollErrors, candleVars>>

PollUnused ==
    UNCHANGED <<bookVars, wsVars, storeVars, resyncVars, busVars, futVars>>

PollNext ==
    \/ startCandleUpdater /\ PollUnused
    \/ \E step \in 0..1 : PollSucceeds(step) /\ PollUnused
    \/ \E network \in BOOLEAN : PollFails(network) /\ PollUnused
    \/ ExitTimerFires /\ PollUnused

\* ---------------------------------------------------------------------------
\* FuturesWebSocket (part_006)
\* ---------------------------------------------------------------------------

futPingInterval == 15000          \* config.pingInterval || 15000
futPongTimeout == 30000           \* config.pongTimeout || 30000
futMaxReconnectAttempts == 10     \* config.maxReconnectAttempts || 10
connectionTimeout == 30000        \* the timeout of connect()
subscribeTimeout == 5000          \* the timeout of subscribeChannel()
futBaseDelay == 5000              \* reconnect(): 5000 * 2^(attempts - 1)
futMaxDelay == 60000              \* reconnect(): the ceiling of the delay

MaxFutTransports == 3             \* WebSocket objects created in a run
FutChannels == 1..2               \* futures.tickers, futures.order_book_update

FutIdle ==
    /\ fWs = 0
    /\ fIsConnected = FALSE
    /\ fShouldReconnect = TRUE
    /\ fReconnectAttempts = 0
    /\ fPingIntervalId = FALSE
    /\ fPongTimeoutId = FALSE
    /\ fTransports = <<>>
    /\ fTimers = <<>>
    /\ fTasks = <<>>
    /\ fProcess = "running"

FutState ==
    [ws |-> fWs, isConnected |-> fIsConnected, shouldReconnect |-> fShouldReconnect,
     reconnectAttempts |-> fReconnectAttempts, pingIntervalId |-> fPingIntervalId,
     pongTimeoutId |-> fPongTimeoutId, transports |-> fTransports, timers |-> fTimers,
     tasks |-> fTasks, process |-> fProcess]

FutBecomes(s) ==
    /\ fWs' = s.ws
    /\ fIsConnected' = s.isConnected
    /\ fShouldReconnect' = s.shouldReconnect
    /\ fReconnectAttempts' = s.reconnectAttempts
    /\ fPingIntervalId' = s.pingIntervalId
    /\ fPongTimeoutId' = s.pongTimeoutId
    /\ fTransports' = s.transports
    /\ fTimers' = s.timers
    /\ fTasks' = s.tasks
    /\ fProcess' = s.process

FutRunning == fProcess = "running"

TwoTo(n) == IF n <= 0 THEN 1 ELSE 2 ^ n

\* the timers of a kind whose handle is the one stored in the object's field
futDropHeld(ts, kind) == SelectSeq(ts, LAMBDA x : ~(x.kind = kind /\ x.held))

futUnhold(ts, kind) ==
    [j \in 1..Len(ts) |-> IF ts[j].kind = kind THEN [ts[j] EXCEPT !.held = FALSE] ELSE ts[j]]

\* ws.terminate() / ws.close(): the close event follows in a later turn
futShut(s) ==
    IF s.ws = 0 THEN s
    ELSE IF s.transports[s.ws].state \in {"connecting", "open"}
    THEN [s EXCEPT !.transports[s.ws].state = "closing"]
    ELSE s

\* startPingPong (part_006:414-444): the interval is set without clearing the
\* one of this.pingIntervalId
futStartPingPong(s) ==
    [s EXCEPT !.timers = Append(futUnhold(@, "ping"),
                                [kind |-> "ping", left |-> futPingInterval,
                                 held |-> TRUE, ponged |-> FALSE]),
              !.pingIntervalId = TRUE]

\* stopPingPong (part_006:446-456)
futStopPingPong(s) ==
    LET s1 == IF s.pingIntervalId
              THEN [s EXCEPT !.timers = futDropHeld(@, "ping"), !.pingIntervalId = FALSE]
              ELSE s
    IN  IF s1.pongTimeoutId
        THEN [s1 EXCEPT !.timers = futDropHeld(@, "pong"), !.pongTimeoutId = FALSE]
        ELSE s1

\* connect() (part_006:74-88) called by task k: a new WebSocket and its
\* connection timeout; the promise is pending
futConnect(s, k) ==
    [s EXCEPT !.transports = Append(@, [state |-> "connecting", subSent |-> {},
                                        pinged |-> FALSE, connTimer |-> connectionTimeout,
                                        afterDisconnect |-> ~s.shouldReconnect]),
              !.ws = Len(s.transports) + 1,
              !.tasks[k] = [@ EXCEPT !.pc = "connect", !.t = Len(s.transports) + 1,
                                     !.left = -1]]

\* reconnect() (part_006:462-490) up to its await of the delay
futReconnect(s) ==
    IF s.reconnectAttempts >= futMaxReconnectAttempts THEN s
    ELSE LET attempts == s.reconnectAttempts + 1
             delay == Min({futBaseDelay * TwoTo(attempts - 1), futMaxDelay})
         IN  [s EXCEPT !.reconnectAttempts = attempts,
                       !.tasks = Append(@, [origin |-> "reconnect", pc |-> "delay", t |-> 0,
                                            channel |-> 0, left |-> delay, holds |-> FALSE,
                                            afterDisconnect |-> ~s.shouldReconnect])]

\* the awaited promise of task k is rejected, or the awaited call throws:
\* the catch of reconnect() calls reconnect() (part_006:498-505); a call of
\* the host surfaces the error to the host
futTaskFails(s, k) ==
    LET s1 == [s EXCEPT !.tasks = RemoveAt(@, k)]
    IN  IF s.tasks[k].origin = "reconnect" THEN futReconnect(s1) ELSE s1

\* subscribeChannel (part_006:186-220) called by task k for channel c
futSubscribeChannel(s, k, c) ==
    IF s.ws = 0 \/ ~s.isConnected THEN futTaskFails(s, k)
    ELSE IF s.transports[s.ws].state = "connecting" THEN futTaskFails(s, k)
    ELSE [s EXCEPT !.transports[s.ws].subSent =
                       IF s.transports[s.ws].state = "open" THEN @ \cup {c} ELSE @,
                   !.tasks = [j \in 1..Len(@) |->
                                 IF j = k
                                 THEN [@[j] EXCEPT !.pc = "sub", !.channel = c,
                                                   !.left = subscribeTimeout, !.holds = TRUE]
                                 ELSE IF @[j].pc = "sub" /\ @[j].channel = c
                                 THEN [@[j] EXCEPT !.holds = FALSE]
                                 ELSE @[j]]]

\* subscribe() (part_006:159-165) called by task k
futSubscribe(s, k) ==
    IF ~s.isConnected \/ s.ws = 0 THEN futTaskFails(s, k) ELSE futSubscribeChannel(s, k, 1)

\* the close handler (part_006:116-130)
futOnClose(s) ==
    LET s1 == futStopPingPong([s EXCEPT !.isConnected = FALSE])
    IN  IF s1.shouldReconnect THEN futReconnect(s1) ELSE s1

\* the host calls connect() and then subscribe()
fHostConnect ==
    /\ FutRunning
    /\ fTransports = <<>>
    /\ fTasks = <<>>
    /\ fShouldReconnect
    /\ LET s == [FutState EXCEPT !.tasks = <<[origin |-> "host", pc |-> "connect", t |-> 0,
                                              channel |-> 0, left |-> -1, holds |-> FALSE,
                                              afterDisconnect |-> FALSE]>>]
       IN  FutBecomes(futConnect(s, 1))

\* the open handler of transport t (part_006:90-103) and the continuation of
\* the call that awaited connect()
fOpen(t) ==
    /\ FutRunning
    /\ fTransports[t].state = "connecting"
    /\ LET s0 == [FutState EXCEPT !.transports[t] = [@ EXCEPT !.state = "open",
                                                              !.connTimer = -1],
                                  !.isConnected = TRUE,
                                  !.reconnectAttempts = 0]
           s1 == futStartPingPong(s0)
           waiting == {k \in 1..Len(fTasks) : fTasks[k].pc = "connect" /\ fTasks[k].t = t}
       IN  IF waiting = {} THEN FutBecomes(s1)
           ELSE FutBecomes(futSubscribe(s1, CHOOSE k \in waiting : TRUE))

\* the error and close events of a transport that did not open, or the close
\* event of an open or shut one (part_006:109-130): the error handler only logs
fCloseEvent(t) ==
    /\ FutRunning
    /\ fTransports[t].state \in {"connecting", "open", "closing"}
    /\ FutBecomes(futOnClose([FutState EXCEPT !.transports[t] =
                                 [@ EXCEPT !.state = "closed", !.subSent = {},
                                           !.pinged = FALSE]]))

\* the connection timeout of transport t (part_006:83-88)
fConnectionTimeout(t) ==
    /\ FutRunning
    /\ fTransports[t].connTimer = 0
    /\ LET s0 == [FutState EXCEPT !.transports[t].connTimer = -1]
           waiting == {k \in 1..Len(fTasks) : fTasks[k].pc = "connect" /\ fTasks[k].t = t}
       IN  IF fIsConnected THEN FutBecomes(s0)
           ELSE LET s1 == futShut(s0)
                IN  IF waiting = {} THEN FutBecomes(s1)
                    ELSE FutBecomes(futTaskFails(s1, CHOOSE k \in waiting : TRUE))

\* a tick of a ping interval (part_006:415-443); ws.ping() throws on a
\* WebSocket that is still connecting
fPingFires(i) ==
    /\ FutRunning
    /\ fTimers[i].kind = "ping"
    /\ fTimers[i].left = 0
    /\ LET s0 == [FutState EXCEPT !.timers[i].left = futPingInterval]
       IN  IF fWs = 0 \/ ~fIsConnected THEN FutBecomes(s0)
           ELSE IF fTransports[fWs].state = "connecting"
           THEN FutBecomes([s0 EXCEPT !.process = "crashed"])
           ELSE FutBecomes([s0 EXCEPT
                               !.transports[fWs].pinged = (fTransports[fWs].state = "open"),
                               !.timers = Append(futUnhold(@, "pong"),
                                                 [kind |-> "pong", left |-> futPongTimeout,
                                                  held |-> TRUE, ponged |-> FALSE]),
                               !.pongTimeoutId = TRUE])

\* the pong handler of transport t (part_006:132-150); `ponged` marks the
\* pong timeouts that are still pending after a pong
fPong(t) ==
    /\ FutRunning
    /\ fTransports[t].state = "open"
    /\ fTransports[t].pinged
    /\ LET s0 == [FutState EXCEPT !.transports[t].pinged = FALSE]
           s1 == IF s0.pongTimeoutId
                 THEN [s0 EXCEPT !.timers = futDropHeld(@, "pong"), !.pongTimeoutId = FALSE]
                 ELSE s0
       IN  FutBecomes([s1 EXCEPT !.timers =
                          [j \in 1..Len(@) |->
                              IF @[j].kind = "pong" THEN [@[j] EXCEPT !.ponged = TRUE]
                              ELSE @[j]]])

\* a pong timeout fires (part_006:431-441)
fPongTimeout(i) ==
    /\ FutRunning
    /\ fTimers[i].kind = "pong"
    /\ fTimers[i].left = 0
    /\ FutBecomes(futShut([FutState EXCEPT !.timers = RemoveAt(@, i)]))

\* the delay of reconnect() is over (part_006:490-494): connect() is called
fDelayOver(k) ==
    /\ FutRunning
    /\ fTasks[k].pc = "delay"
    /\ fTasks[k].left = 0
    /\ Len(fTransports) < MaxFutTransports
    /\ FutBecomes(futConnect(FutState, k))

\* a subscribe frame for channel c on transport t (part_006:299-313)
fSubscribeAck(t, c) ==
    /\ FutRunning
    /\ fTransports[t].state = "open"
    /\ c \in fTransports[t].subSent
    /\ LET s0 == [FutState EXCEPT !.transports[t].subSent = @ \ {c}]
           holders == {k \in 1..Len(fTasks) :
                          fTasks[k].pc = "sub" /\ fTasks[k].channel = c /\ fTasks[k].holds}
       IN  IF holders = {} THEN FutBecomes(s0)
           ELSE LET k == CHOOSE h \in holders : TRUE
                IN  IF c = 1 THEN FutBecomes(futSubscribeChannel(s0, k, 2))
                    ELSE FutBecomes([s0 EXCEPT !.tasks = RemoveAt(@, k)])

\* the timeout of subscribeChannel (part_006:211-213)
fSubscribeTimeout(k) ==
    /\ FutRunning
    /\ fTasks[k].pc = "sub"
    /\ fTasks[k].left = 0
    /\ FutBecomes(futTaskFails(FutState, k))

\* disconnect() (part_006:512-526)
fDisconnect ==
    /\ FutRunning
    /\ fShouldReconnect
    /\ fTransports # <<>>
    /\ LET s0 == futStopPingPong([FutState EXCEPT !.shouldReconnect = FALSE])
           s1 == futShut(s0)
       IN  FutBecomes([s1 EXCEPT !.ws = 0, !.isConnected = FALSE])

\* the remaining times of everything that is pending
FutLefts ==
    {fTimers[i].left : i \in 1..Len(fTimers)}
      \cup {fTasks[k].left : k \in 1..Len(fTasks)}
      \cup {fTransports[t].connTimer : t \in 1..Len(fTransports)}

\* time passes until the next timer is due
fTimePasses ==
    /\ FutRunning
    /\ 0 \notin FutLefts
    /\ \E x \in FutLefts : x > 0
    /\ LET d == Min({x \in FutLefts : x > 0})
       IN  /\ fTimers' = [i \in 1..Len(fTimers) |-> [fTimers[i] EXCEPT !.left = @ - d]]
           /\ fTasks' = [k \in 1..Len(fTasks) |->
                            IF fTasks[k].left > 0 THEN [fTasks[k] EXCEPT !.left = @ - d]
                            ELSE fTasks[k]]
           /\ fTransports' = [t \in 1..Len(fTransports) |->
                                 IF fTransports[t].connTimer > 0
                                 THEN [fTransports[t] EXCEPT !.connTimer = @ - d]
                                 ELSE fTransports[t]]
    /\ UNCHANGED <<fWs, fIsConnected, fShouldReconnect, fReconnectAttempts,
                   fPingIntervalId, fPongTimeoutId, fProcess>>

FutUnused ==
    UNCHANGED <<bookVars, candleVars, wsVars, storeVars, resyncVars, busVars, pollVars>>

FutNext ==
    \/ fHostConnect /\ FutUnused
    \/ \E t \in 1..Len(fTransports) : fOpen(t) /\ FutUnused
    \/ \E t \in 1..Len(fTransports) : fCloseEvent(t) /\ FutUnused
    \/ \E t \in 1..Len(fTransports) : fConnectionTimeout(t) /\ FutUnused
    \/ \E i \in 1..Len(fTimers) : fPingFires(i) /\ FutUnused
    \/ \E t \in 1..Len(fTransports) : fPong(t) /\ FutUnused
    \/ \E i \in 1..Len(fTimers) : fPongTimeout(i) /\ FutUnused
    \/ \E k \in 1..Len(fTasks) : fDelayOver(k) /\ FutUnused
    \/ \E t \in 1..Len(fTransports), c \in FutChannels : fSubscribeAck(t, c) /\ FutUnused
    \/ \E k \in 1..Len(fTasks) : fSubscribeTimeout(k) /\ FutUnused
    \/ fDisconnect /\ FutUnused
    \/ fTimePasses /\ FutUnused

RestIdle == BusIdle /\ PollIdle /\ FutIdle


InitBook == BookInit /\ CandleInit /\ SessionIdle /\ StoreIdle /\ ResyncInit /\ RestIdle

InitCandle == BookIdle /\ CandleInit /\ SessionIdle /\ StoreIdle /\ ResyncInit /\ RestIdle

InitWS ==
    /\ BookIdle
    /\ CandleInit
    /\ StoreIdle
    /\ ResyncInit /\ RestIdle
    /\ \E c \in Configs : SessionInit(c)

SpecBook == InitBook /\ [][BookNext]_vars

SpecBookRaw == InitBook /\ [][BookNextRaw]_vars

SpecBookIds == InitBook /\ [][BookNextIds]_vars

SpecResync == InitBook /\ [][ResyncNext]_vars

SpecCandle == InitCandle /\ [][CandleNext]_vars

\* the first GapHorizon minutes of the feed, without reset
CandleGapsNext ==
    \/ initializeCandleData /\ UNCHANGED <<bookVars, wsVars, storeVars, resyncVars, restVars>>
    \/ \E step \in 0..2 :
          /\ feedPos + step <= GapHorizon
          /\ updater(step, 0)
          /\ UNCHANGED <<bookVars, wsVars, storeVars, resyncVars, restVars>>
    \/ /\ feedPos <= GapHorizon
       /\ updater(0, 30000)
       /\ UNCHANGED <<bookVars, wsVars, storeVars, resyncVars, restVars>>

SpecCandleGaps == InitCandle /\ [][CandleGapsNext]_vars

InitBus == BookIdle /\ CandleInit /\ SessionIdle /\ StoreIdle /\ ResyncInit
           /\ BusIdle /\ PollIdle /\ FutIdle

SpecBus == InitBus /\ [][BusNext]_vars

SpecPoll == InitCandle /\ [][PollNext]_vars

SpecFutures == InitCandle /\ [][FutNext]_vars

SpecWS == InitWS /\ [][SessionNext]_vars

InitStore == BookIdle /\ CandleInit /\ SessionIdle /\ StoreInit /\ ResyncInit /\ RestIdle

\* The buffers of the stores, added to and cleared directly
SpecStore == InitStore /\ [][StoreNext]_vars

InitWSBackoff == BookIdle /\ CandleInit /\ StoreIdle /\ ResyncInit /\ RestIdle /\ SessionInit(BackoffConfig)

\* The session under the configuration with the low backoff ceiling, in the
\* runs where the host does not call disconnect()
SpecWSBackoff == InitWSBackoff /\ [][SessionEvents]_vars

\* The session under the same configuration with data frames and malformed
\* frames arriving
SpecWSFrames == InitWSBackoff /\ [][SessionFrames]_vars

SessionChannels ==
    \/ SessionFrames
    \/ \E t \in 1..Len(transports) :
          ErrorFrameArrives(t) /\ UNCHANGED <<bookVars, candleVars, storeVars, resyncVars, restVars>>

SpecWSChannels == InitWSBackoff /\ [][SessionChannels]_vars

\* Time passes and due heartbeat timers fire; nothing is assumed of the venue.
SpecWSFair ==
    /\ SpecWS
    /\ WF_vars(TimePasses /\ UNCHANGED <<bookVars, candleVars, storeVars, resyncVars, restVars>>)
    /\ WF_vars(\E i \in 1..Len(timers) : PingTimerFires(i) /\ UNCHANGED <<bookVars, candleVars, storeVars, resyncVars, restVars>>)
    /\ WF_vars(\E i \in 1..Len(timers) : handlePongTimeout(i) /\ UNCHANGED <<bookVars, candleVars, storeVars, resyncVars, restVars>>)

----------------------------------------------------------------------------
\* Claims about OrderBookStore (checked under SpecBook)

\* No sync() is suspended and every diff the venue produced has been delivered.
Quiescent == fetches = <<>> /\ stream = <<>>

\* No level of the book comes from a frame whose price or amount was not a number.
NumbersOnly ==
    /\ \A p \in DOMAIN bids : p # NaNKey /\ bids[p] # NaNKey
    /\ \A p \in DOMAIN asks : p # NaNKey /\ asks[p] # NaNKey

\* C1: once no fetch is in flight and every produced diff has been delivered,
\* the local bid and ask mappings equal the venue's book (for snapshots that
\* carry exactly the venue's levels as of their id).
C1_BookEqualsVenueWhenQuiet ==
    (Quiescent /\ syncedEvents >= 1 /\ ~noisySnapshot /\ NumbersOnly)
        => (bids = venueBids /\ asks = venueAsks)

\* C2: neither side mapping ever maps a price to amount 0.
C2_NoZeroVolumeLevel ==
    /\ \A p \in DOMAIN bids : bids[p] # 0
    /\ \A p \in DOMAIN asks : asks[p] # 0

\* C3: a sync() whose fetch fails changes nothing of the order-book state
\* (bid mapping, ask mapping, lastUpdateId, lastSyncTime) from the call to the
\* failure, emits no order-book-synced event, and fails to its caller.
C3_FailedSyncKeepsState ==
    [][ /\ (SyncBegin \/ \E i \in 1..Len(fetches) : SyncFail(i))
            => /\ bids' = bids
               /\ asks' = asks
               /\ lastUpdateId' = lastUpdateId
               /\ lastSyncTime' = lastSyncTime
               /\ syncedEvents' = syncedEvents
        /\ (\E i \in 1..Len(fetches) : SyncFail(i))
            => syncFailures' = syncFailures + 1 ]_vars

\* A sync() has failed on a book that an earlier sync() and a diff filled.
C3_Witness ==
    /\ syncFailures >= 1
    /\ syncedEvents >= 1
    /\ updateCount >= 1
    /\ DOMAIN bids # {}
    /\ lastSyncTime > 0

\* C11: in every reachable state getBids(n) returns at most n levels in
\* strictly descending price order and getAsks(n) at most n levels in strictly
\* ascending price order (so no price twice within a side).
C11_ReadsAreSorted ==
    \A n \in 0..MaxCount :
        /\ \A r \in getBids(n) :
              /\ Len(r) <= n
              /\ \A i \in 1..(Len(r) - 1) : JsLess(r[i + 1].price, r[i].price)
        /\ \A r \in getAsks(n) :
              /\ Len(r) <= n
              /\ \A i \in 1..(Len(r) - 1) : JsLess(r[i].price, r[i + 1].price)

\* The side mapping m after the levels of one side of an update, said price
\* by price: the last level naming a price decides, a zero amount leaves the
\* price absent, a price no level names keeps what it had.
SideAfter(m, levels) ==
    LET named == {levels[i].price : i \in 1..Len(levels)}
        last(p) == levels[Max({i \in 1..Len(levels) : levels[i].price = p})]
        kept == {p \in named : last(p).amount # 0} \cup (DOMAIN m \ named)
    IN  [p \in kept |-> IF p \in named THEN last(p).amount ELSE m[p]]

\* C12: applyUpdate(update) removes each price given with amount 0 from its
\* side (nothing happens if it is absent), sets every other given price to
\* its amount, keeps all prices the update does not name, and touches each
\* side only with the levels of that side.
C12_ApplyUpdateEffect ==
    [][ (OnOrderBookUpdated /\ Head(stream).s = Symbol)
            => LET update == handleOrderBookUpdate(Head(stream))
               IN  /\ bids' = SideAfter(bids, update.bids)
                   /\ asks' = SideAfter(asks, update.asks) ]_vars

\* A diff that removed the only ask was applied to a synced book.
C12_Witness ==
    /\ updateCount >= 1
    /\ syncedEvents >= 1
    /\ lastUpdateId = venueId
    /\ venueId >= 1
    /\ stream = <<>>
    /\ asks = EmptyMap
    /\ DOMAIN bids # {}

\* A snapshot level the store can read: one of the two wire encodings, with a
\* price and an amount that parse to numbers.
Parsable(level) ==
    /\ level.enc \in {"array", "object"}
    /\ ~isNaN(ParseFloat(level.price))
    /\ ~isNaN(ParseFloat(level.amount))

\* One side of a snapshot, price by price: the prices of its parsable levels,
\* each with the amount of the last parsable level that names it.
SnapshotSide(levels) ==
    LET at(p) == {j \in 1..Len(levels) :
                     Parsable(levels[j]) /\ ParseFloat(levels[j].price).val = p}
    IN  [p \in {ParseFloat(levels[j].price).val :
                   j \in {k \in 1..Len(levels) : Parsable(levels[k])}}
            |-> ParseFloat(levels[Max(at(p))].amount).val]

\* C13: a successful sync() leaves each side holding exactly the parsable
\* levels of the fetched snapshot, in either wire encoding, and lastUpdateId
\* equal to the snapshot's id; nothing the maps held before the load survives,
\* a level written by a diff during the fetch included.
C13_SyncReplacesBook ==
    [][ \A i \in 1..Len(fetches) :
            SyncLoad(i)
                => /\ bids' = SnapshotSide(fetches[i].bids)
                   /\ asks' = SnapshotSide(fetches[i].asks)
                   /\ lastUpdateId' = fetches[i].id ]_vars

\* A diff was applied while the fetch was in flight, and the snapshot loaded
\* afterwards is the older one.
C13_Witness ==
    /\ syncedEvents >= 1
    /\ updateCount >= 1
    /\ stream = <<>>
    /\ fetches = <<>>
    /\ lastUpdateId < venueId
    /\ bids # venueBids

----------------------------------------------------------------------------
\* Claims about GateioWebSocket (checked under SpecWS and SpecWSFair)

\* A ping was sent on the open connection and its pong has not come.
PingUnanswered ==
    /\ ws # 0
    /\ isConnected
    /\ transports[ws].state = "open"
    /\ transports[ws].pinged

\* The session stopped waiting for another reason than the pong timeout: a
\* pong came, some transport ended, disconnect() was called, the process ended.
WaitCutShort ==
    \/ pongReceived
    \/ \E t \in 1..Len(transports) : transports[t].state \in {"closing", "aborted", "closed"}
    \/ disconnects > 0
    \/ ~Running

\* C4: with a ping every 15 s and a pong timeout of 30 s, a ping on an open
\* connection that is never answered leads to the pong timeout firing (which
\* terminates the transport, disconnects the session and schedules reconnect
\* attempt 1).
C4_UnansweredPingTimesOut ==
    (/\ config.pingInterval = DEFAULT_PING_INTERVAL
     /\ config.pongTimeout = DEFAULT_PONG_TIMEOUT
     /\ PingUnanswered)
        ~> (pongTimeoutFired \/ WaitCutShort)

\* C5: at every moment at most one transport created by the session is open
\* or connecting.
C5_AtMostOneLiveTransport ==
    Cardinality({t \in 1..Len(transports) :
                    transports[t].state \in {"open", "connecting"}}) <= 1

\* C6: once disconnect() has been called, no reconnect is scheduled, no
\* heartbeat or reconnect timer of the session is pending and no transport is
\* created.
C6_DisconnectIsFinal ==
    disconnects > 0 =>
        /\ \A i \in 1..Len(reconnecting) : ~reconnecting[i].afterDisconnect
        /\ timers = <<>>
        /\ \A t \in 1..Len(transports) : ~transports[t].afterDisconnect

----------------------------------------------------------------------------
\* Claims about CandleBuilder (checked under SpecCandle)

\* The candles follow each other at the given distance.
Contiguous(cs, stepMs) ==
    \A j \in 2..Len(cs) : cs[j].timestamp = cs[j - 1].timestamp + stepMs

\* C7: from an empty builder, exactly 6 contiguous 1m candles of which the
\* first lies on a 6-minute boundary give exactly one 6m candle (open of the
\* first, close of the last, extremes, sums) and leave the accumulator empty.
C7_SixContiguousGiveOne6m ==
    (/\ startedEmpty
     /\ Len(fed) = 6
     /\ Contiguous(fed, TIMEFRAME_1M)
     /\ fed[1].timestamp % TIMEFRAME_6M = 0)
        => /\ completed6m =
                <<[timestamp |-> fed[1].timestamp,
                   open |-> fed[1].open,
                   close |-> fed[6].close,
                   high |-> SeqMax(Field(fed, "high")),
                   low |-> SeqMin(Field(fed, "low")),
                   volume |-> SeqSum(Field(fed, "volume")),
                   quoteVolume |-> SeqSum(Field(fed, "quoteVolume"))]>>
           /\ accumulator1m = <<>>

\* C8: every 6m and 24m candle stored or emitted has a timestamp that is a
\* multiple of 6 minutes, respectively 24 minutes.
C8_PeriodStartAligned ==
    /\ \A i \in 1..Len(completed6m) : completed6m[i].timestamp % TIMEFRAME_6M = 0
    /\ \A i \in 1..Len(candles["6m"]) : candles["6m"][i].timestamp % TIMEFRAME_6M = 0
    /\ \A i \in 1..Len(completed24m) : completed24m[i].timestamp % TIMEFRAME_24M = 0
    /\ \A i \in 1..Len(candles["24m"]) : candles["24m"][i].timestamp % TIMEFRAME_24M = 0

\* C9: every 6m candle is built from 6 candles 60 s apart and every 24m
\* candle from 4 candles 6 minutes apart.
C9_NoAggregationAcrossGap ==
    \A i \in 1..Len(groups) :
        LET g == groups[i]
            n == IF g.tf = "6m" THEN AGGREGATION_1M_TO_6M ELSE AGGREGATION_6M_TO_24M
            stepMs == IF g.tf = "6m" THEN TIMEFRAME_1M ELSE TIMEFRAME_6M
        IN  /\ Len(g.from) = n
            /\ \A j \in 2..n : g.from[j] = g.from[j - 1] + stepMs

\* C10: from an empty builder, 24 contiguous 1m candles of which the first
\* lies on a 24-minute boundary give exactly four 6m candles and one 24m
\* candle, emitted and stored, and leave both accumulators empty.
C10_CascadeCompletes ==
    (/\ startedEmpty
     /\ Len(fed) = 24
     /\ Contiguous(fed, TIMEFRAME_1M)
     /\ fed[1].timestamp % TIMEFRAME_24M = 0)
        => /\ Len(completed6m) = 4
           /\ Len(completed24m) = 1
           /\ \A i \in 1..Len(completed6m) :
                 \E j \in 1..Len(candles["6m"]) : candles["6m"][j] = completed6m[i]
           /\ \A i \in 1..Len(completed24m) :
                 \E j \in 1..Len(candles["24m"]) : candles["24m"][j] = completed24m[i]
           /\ accumulator1m = <<>>
           /\ accumulator6m = <<>>

----------------------------------------------------------------------------
\* Claims about the reconnect backoff of GateioWebSocket

\* A transport goes from connecting to open in this step (handleOpen runs).
OpensNow ==
    \E t \in 1..Len(transports) :
        transports[t].state = "connecting" /\ transports'[t].state = "open"

\* The delays of the reconnects scheduled in this step, in order.
NewDelays ==
    [j \in 1..(Len(reconnecting') - Len(reconnecting)) |->
        reconnecting'[Len(reconnecting) + j].delay]

\* C14: between two opens the scheduled reconnect delay never decreases and
\* never exceeds maxReconnectInterval; an open sets the backoff interval back
\* to reconnectInterval, from where the next failures count up again.
C14_BackoffMonotoneCappedReset ==
    [][ LET from == IF OpensNow THEN config.reconnectInterval
                    ELSE currentReconnectInterval
            d == NewDelays
        IN  /\ \A j \in 1..Len(d) :
                  /\ d[j] <= config.maxReconnectInterval
                  /\ d[j] >= (IF j = 1 THEN from ELSE d[j - 1])
            /\ currentReconnectInterval' = (IF d = <<>> THEN from ELSE d[Len(d)]) ]_vars

\* Reconnects were scheduled up to the ceiling, and a later open has set the
\* interval back to the base.
C14_Witness ==
    /\ \E j \in 1..Len(reconnecting) :
          /\ reconnecting[j].delay = config.maxReconnectInterval
          /\ \E i \in 1..(j - 1) : reconnecting[i].delay < reconnecting[j].delay
    /\ isConnected
    /\ ws # 0
    /\ transports[ws].state = "open"
    /\ currentReconnectInterval = config.reconnectInterval

\* 2^n
RECURSIVE Pow2(_)
Pow2(n) == IF n = 0 THEN 1 ELSE 2 * Pow2(n - 1)

\* C15: with the base interval 5 s and the ceiling 60 s, the n-th reconnect
\* attempt since the last open waits min(5 s * 2^(n-1), 60 s): 5 s, 10 s,
\* 20 s, 40 s, then 60 s.
C15_DelayOfAttempt ==
    (config.reconnectInterval = 5000 /\ config.maxReconnectInterval = 60000)
        => \A j \in 1..Len(reconnecting) :
              reconnecting[j].delay =
                  Min({5000 * Pow2(reconnecting[j].attempt - 1), 60000})

\* Reconnects scheduled since the last one whose connect() and subscribe()
\* both succeeded (since the start when there is none).
Unrecovered ==
    LET R == {j \in 1..Len(reconnecting) : reconnecting[j].recovered}
    IN  Len(reconnecting) - (IF R = {} THEN 0 ELSE Max(R))

\* C16: with a cap M > 0 configured, at most M reconnects are scheduled
\* without a reconnect in between that succeeded in full, whether it was
\* connect() or the subscribe() after it that failed.
C16_CapLimitsAttempts ==
    config.maxReconnectAttempts > 0 => Unrecovered <= config.maxReconnectAttempts

\* C17: when scheduleReconnect finds the configured attempts used up and
\* stops, the session emits an event on the bus in that same turn, after the
\* finding, for the host process to act on.
C17_ExhaustionIsEmitted ==
    \A i \in 1..Len(journal) :
        journal[i] = LimitLine
            => \E j \in (i + 1)..Len(journal) : journal[j] # LimitLine

----------------------------------------------------------------------------
\* Claims about the subscriptions of GateioWebSocket

\* The wait of call k for the acknowledgment of its channel ends in this step
\* without one: by the 5000 ms timeout or by the venue's error response.
WaitFails(k) ==
    /\ \E timedOut \in BOOLEAN : Poll(k, timedOut)
    /\ ~(/\ Channels[tasks[k].channel] \in DOMAIN subscriptions
          /\ subscriptions[Channels[tasks[k].channel]] = "subscribed")

\* C18: the channels are subscribed independently: when the subscription of
\* spot.tickers fails on an open transport, the request for
\* spot.order_book_update is sent all the same.
C18_ChannelsIndependent ==
    [][ \A k \in 1..Len(tasks) :
            (/\ tasks[k].pc = "wait"
             /\ tasks[k].channel = 1
             /\ isConnected
             /\ ws # 0
             /\ transports[ws].state = "open"
             /\ WaitFails(k))
                => /\ Channels[2] \in DOMAIN subscriptions'
                   /\ subscriptions'[Channels[2]] = "pending"
                   /\ Channels[2] \in transports'[ws].subSent ]_vars

\* C19: after a reconnect whose transport opened, the subscribe request of
\* every channel is sent again on that transport: spot.tickers when it opens,
\* spot.order_book_update when the venue has acknowledged spot.tickers.
C19_ResubscribeAfterReconnect ==
    [][ \A k \in 1..Len(tasks) :
          tasks[k].origin = "reconnect"
            => LET t == tasks[k].t
               IN  /\ (/\ tasks[k].pc = "connect"
                        /\ transports[t].state = "connecting"
                        /\ transports'[t].state = "open")
                          => Channels[1] \in transports'[t].subSent
                   /\ (/\ tasks[k].pc = "wait"
                        /\ tasks[k].channel = 1
                        /\ transports[t].state = "open"
                        /\ transports'[t].state = "open"
                        /\ subscriptions[Channels[1]] = "subscribed"
                        /\ \E timedOut \in BOOLEAN : Poll(k, timedOut))
                          => Channels[2] \in transports'[t].subSent ]_vars

\* A connect() call waits on a transport that has neither opened nor failed,
\* and the session has no timer pending: nothing of its own is left to run.
ConnectPending ==
    /\ Running
    /\ timers = <<>>
    /\ \E k \in 1..Len(tasks) :
          tasks[k].pc = "connect" /\ transports[tasks[k].t].state = "connecting"

\* C20: connect() settles: a call waiting on a transport that neither opens
\* nor reports an error is rejected after a bounded time.
C20_ConnectSettles == ConnectPending ~> ~ConnectPending

----------------------------------------------------------------------------
\* Further claims about CandleBuilder (checked under SpecCandle)

\* C21: after every ingest the 1m accumulator holds at most 6 candles and the
\* 6m accumulator at most 4 (an accumulator that exceeds its count is
\* discarded by the ingest that made it exceed), and no group of another size
\* than the configured count is aggregated.
C21_AccumulatorsBounded ==
    /\ Len(accumulator1m) <= AGGREGATION_1M_TO_6M
    /\ Len(accumulator6m) <= AGGREGATION_6M_TO_24M
    /\ \A i \in 1..Len(groups) :
          Len(groups[i].from) = (IF groups[i].tf = "6m" THEN AGGREGATION_1M_TO_6M
                                 ELSE AGGREGATION_6M_TO_24M)

\* The updater hands the builder a 1m candle whose timestamp is off the
\* minute grid in this step (the updater itself has stored it).
OffGridFed ==
    /\ candles'["1m"] # candles["1m"]
    /\ candles'["1m"] # <<>>
    /\ candles'["1m"][Len(candles'["1m"])].timestamp % TIMEFRAME_1M # 0

\* C22: a 1m candle whose timestamp is not a multiple of 60 s is rejected by
\* the builder with no effect: accumulators, last-processed timestamps and
\* the store are as the updater left them, no gap is reported and no
\* candle-completed event is emitted.
C22_OffGridCandleIgnored ==
    [][ OffGridFed
          => /\ UNCHANGED <<accumulator1m, accumulator6m, lastProcessed1m,
                            lastProcessed6m, completed6m, completed24m,
                            gapReports, groups, fed>>
             /\ candles' = StoreAdd(CandleState, "1m",
                                    candles'["1m"][Len(candles'["1m"])]).candles ]_vars

\* An off-grid candle was handed over while the builder held candles.
C22_Witness ==
    /\ candles["1m"] # <<>>
    /\ candles["1m"][Len(candles["1m"])].timestamp % TIMEFRAME_1M # 0
    /\ accumulator1m # <<>>
    /\ lastProcessed1m # <<>>

\* The longest run at the end of a buffer whose candles follow each other at
\* the tier's step.
RECURSIVE TrailingRun(_, _)
TrailingRun(buffer, stepMs) ==
    IF Len(buffer) <= 1 THEN buffer
    ELSE IF Contiguous(buffer, stepMs) THEN buffer
    ELSE TrailingRun(Tail(buffer), stepMs)

\* What the claim lets initializeFromHistory leave in an accumulator: nothing,
\* or the trailing run of the lower tier when that run is incomplete and
\* starts on the next tier's boundary.
SeedAllowed(acc, last, buffer, count, stepMs, alignMs) ==
    LET run == TrailingRun(buffer, stepMs)
    IN  \/ acc = <<>>
        \/ /\ run # <<>>
           /\ Len(run) < count
           /\ run[1].timestamp % alignMs = 0
           /\ acc = run
           /\ last = <<run[Len(run)].timestamp>>

\* C23: initializeFromHistory leaves each accumulator empty or equal to the
\* trailing incomplete run of stored lower-tier candles (contiguous, fewer
\* than the aggregation count, first candle on the next tier's boundary) with
\* the last-processed timestamp at the run's last candle.
C23_SeedIsTrailingRun ==
    [][ (~booted /\ booted')
          => /\ SeedAllowed(accumulator1m', lastProcessed1m', candles'["1m"],
                            AGGREGATION_1M_TO_6M, TIMEFRAME_1M, TIMEFRAME_6M)
             /\ SeedAllowed(accumulator6m', lastProcessed6m', candles'["6m"],
                            AGGREGATION_6M_TO_24M, TIMEFRAME_6M, TIMEFRAME_24M) ]_vars

----------------------------------------------------------------------------
\* Claims about the buffers of TickStore and CandleStore (checked under SpecStore)

\* The buffer the run adds to.
Buffer == IF driven = "tick" THEN ticks ELSE candles[driven]

\* The k-th item (from 0) the run has had accepted.
Offered(k) == IF driven = "tick" THEN VenueTick(k) ELSE VenueCandle(k * TIMEFRAME_MS(driven))

\* The last n of the items accepted so far, oldest first.
Newest(n) == [i \in 1..n |-> Offered(accepted - n + (i - 1))]

\* C24: after any sequence of add() calls the buffer of the TickStore holds at
\* most maxSize ticks and each tier of the CandleStore at most its capacity; an
\* add() that overflows evicts exactly the oldest item, so that the buffer is
\* the most recently accepted items in insertion order.
C24_BufferKeepsNewest ==
    /\ Len(ticks) <= maxSize
    /\ \A tf \in Timeframes : Len(candles[tf]) <= bufferSizes(tf)
    /\ (driven # "none" /\ clears = 0) => Buffer = Newest(Min({accepted, Capacity}))

C24_Witness ==
    /\ driven = "1m"
    /\ clears = 0
    /\ accepted = BUFFER_SIZE_1M + Extra
    /\ Len(candles["1m"]) = BUFFER_SIZE_1M
    /\ candles["1m"][1].timestamp = Extra * TIMEFRAME_1M

\* C25: getTotalCount() is the number of items add() has ever accepted, for
\* the TickStore and for every tier of the CandleStore: evictions do not lower
\* it, and no add() or clear() call lowers it.
C25_TotalCountIsAccepted ==
    /\ driven = "tick" => tickCount = accepted
    /\ driven \in Timeframes => totalCounts[driven] = accepted

\* C26: getLastN(n) returns the min(n, size) most recent items, oldest first,
\* for every n >= 0 (TickStore.getLastN and CandleStore.getLastN).
C26_LastNIsMinOfNAndSize ==
    \A n \in 0..MaxCount :
       /\ TickStoreGetLastN(TickState, n)
             = SubSeq(ticks, Len(ticks) - Min({n, Len(ticks)}) + 1, Len(ticks))
       /\ \A tf \in Timeframes :
             getLastN(CandleState, tf, n)
                = SubSeq(candles[tf], Len(candles[tf]) - Min({n, Len(candles[tf])}) + 1,
                         Len(candles[tf]))

----------------------------------------------------------------------------
\* Further claims about OrderBookStore (checked under SpecBook)

\* Updates as handleOrderBookUpdate hands them to applyUpdate: the changes the
\* venue makes, and two that name several levels.
Diffs ==
    {[bids |-> d[1], asks |-> d[2]] : d \in DiffChoices}
      \cup {[bids |-> <<Level(99, 1), Level(99, 2)>>, asks |-> <<>>],
            [bids |-> <<Level(99, 0), Level(100, 1)>>, asks |-> <<Level(101, 2)>>]}

Named(levels) == {levels[i].price : i \in 1..Len(levels)}

\* Two updates that name no price of the same side in common.
Disjoint(d, e) ==
    /\ Named(d.bids) \cap Named(e.bids) = {}
    /\ Named(d.asks) \cap Named(e.asks) = {}

Book == [bids |-> bids, asks |-> asks]

\* The two mappings after applyUpdate(d).
BookAfter(book, d) ==
    [bids |-> ApplyLevels(book.bids, d.bids), asks |-> ApplyLevels(book.asks, d.asks)]

Restrict(m, S) == [p \in (DOMAIN m) \cap S |-> m[p]]

\* C27: from the same synced book, two diffs that touch disjoint prices give
\* the same bid and ask mappings in either order, and at a price both diffs
\* touch the diff applied later decides the level.
C27_DisjointCommuteLastWins ==
    syncedEvents >= 1 =>
       \A d, e \in Diffs :
          LET after == BookAfter(BookAfter(Book, d), e)
          IN  /\ Disjoint(d, e) => after = BookAfter(BookAfter(Book, e), d)
              /\ Restrict(after.bids, Named(e.bids)) = SideAfter(EmptyMap, e.bids)
              /\ Restrict(after.asks, Named(e.asks)) = SideAfter(EmptyMap, e.asks)

\* A synced book that a diff was applied to, from which two disjoint diffs
\* each change the book, and two diffs on one price do not commute.
C27_Witness ==
    /\ syncedEvents >= 1
    /\ updateCount >= 1
    /\ \E d, e \in Diffs :
          /\ Disjoint(d, e)
          /\ BookAfter(Book, d) # Book
          /\ BookAfter(BookAfter(Book, d), e) # BookAfter(Book, d)
          /\ BookAfter(BookAfter(Book, d), e) # BookAfter(Book, e)
    /\ \E d, e \in Diffs :
          BookAfter(BookAfter(Book, d), e) # BookAfter(BookAfter(Book, e), d)

\* C28: after every applyUpdate(update) lastUpdateId is update.updateId,
\* whether that id is below, equal to, one above or further above the id the
\* store had; no diff of the pair is left unapplied because of its id.
C28_LastUpdateIdFollowsUpdate ==
    [][ (OnOrderBookUpdated /\ Head(stream).s = Symbol)
            => LET update == handleOrderBookUpdate(Head(stream))
               IN  /\ lastUpdateId' = update.updateId
                   /\ updateCount' = updateCount + 1
                   /\ bids' = ApplyLevels(bids, update.bids)
                   /\ asks' = ApplyLevels(asks, update.asks) ]_vars

\* An update with an id below the store's is about to be applied to a book
\* that an earlier update filled, and changes it.
C28_Witness ==
    /\ updateCount >= 1
    /\ stream # <<>>
    /\ Head(stream).s = Symbol
    /\ Head(stream).u < lastUpdateId
    /\ BookAfter(Book, handleOrderBookUpdate(Head(stream))) # Book

\* The snapshot and the diff of the example: bids 100 x 1 and 99 x 2, ask
\* 101 x 1, then the bid at 100 removed.
ExampleBids == LoadLevels(EmptyMap, <<RawLevel("array", "100", "1"), RawLevel("array", "99", "2")>>)
ExampleAsks == LoadLevels(EmptyMap, <<RawLevel("array", "101", "1")>>)
ExampleBidsAfter == ApplyLevels(ExampleBids, <<Level(100, 0)>>)

\* The highest and the lowest price among the keys (NaN when no key is a number).
Highest(S) == IF S \ {NaNKey} = {} THEN NaN ELSE Num(Max(S \ {NaNKey}))
Lowest(S) == IF S \ {NaNKey} = {} THEN NaN ELSE Num(Min(S \ {NaNKey}))

\* C29: getStats() returns zeros with 50/50 when a side is empty, and
\* otherwise the highest bid price, the lowest ask price and their difference;
\* for the example it returns 100, 101, 1 and a mid of 100.5, and 99 as the
\* best bid after the bid at 100 is removed.
C29_StatsOfBook ==
    /\ \A s \in getStats :
          IF DOMAIN bids = {} \/ DOMAIN asks = {}
          THEN /\ s.bestBid = Num(0) /\ s.bestAsk = Num(0) /\ s.spread = Num(0)
               /\ RatioEq(s.midPrice, Ratio(0, 1))
               /\ RatioEq(s.bidPercent, Ratio(50, 1))
               /\ RatioEq(s.askPercent, Ratio(50, 1))
          ELSE /\ s.bestBid = Highest(DOMAIN bids)
               /\ s.bestAsk = Lowest(DOMAIN asks)
               /\ s.spread = JsSub(s.bestAsk, s.bestBid)
    /\ \A s \in getStatsOf(ExampleBids, ExampleAsks) :
          /\ s.bestBid = Num(100) /\ s.bestAsk = Num(101) /\ s.spread = Num(1)
          /\ RatioEq(s.midPrice, Ratio(201, 2))
    /\ \A s \in getStatsOf(ExampleBidsAfter, ExampleAsks) : s.bestBid = Num(99)

\* The firings of the resync timer at which sync() was called.
PeriodicStarts(f) == SelectSeq(f, LAMBDA x : x.synced)

\* C30: every firing of the resync timer starts a sync(), so that the starts
\* of two consecutive periodic resyncs are never more than one syncInterval
\* apart.
C30_EveryFiringResyncs ==
    [][ firings' # firings
          => /\ Len(fetches') = Len(fetches) + 1
             /\ LET starts == PeriodicStarts(firings')
                IN  \A i \in 1..(Len(starts) - 1) :
                       starts[i + 1].at - starts[i].at <= syncInterval ]_vars

----------------------------------------------------------------------------
\* Further claims about GateioWebSocket

DataEvents == {"data:tick:received", "data:orderbook:updated"}

\* C31: a malformed inbound frame (not JSON, without channel or event, an
\* update without result, a ticker or order-book result that fails the
\* validator) is discarded alone: the connection flag, the subscription
\* statuses, the heartbeat and reconnect timers and the reconnect counter stay
\* as they are, no tick or order-book event is emitted for it, and the frames
\* after it are handled as they would have been without it.
C31_MalformedFrameDiscarded ==
    [][ \A t \in 1..Len(transports), f \in MalformedFrames :
           FrameHandled(t, f)
              => /\ UNCHANGED <<ws, isConnected, shouldReconnect, subscriptions,
                                reconnectAttempts, currentReconnectInterval,
                                reconnectTimer, pingTimer, pongTimer, timers,
                                transports, tasks, process>>
                 /\ \A i \in 1..Len(journal') : journal'[i] \notin DataEvents
                 /\ \A g \in DataFrames :
                       handleMessage(SessionState', g) = handleMessage(SessionState, g) ]_vars

\* A frame was discarded on a connected session with both channels
\* subscribed and the heartbeat running.
C31_Witness ==
    /\ journal # <<>>
    /\ \A i \in 1..Len(journal) :
          journal[i] \in {"log:parse error", "log:invalid message",
                          "log:update without result", "log:invalid ticker",
                          "log:invalid orderbook"}
    /\ isConnected
    /\ pingTimer
    /\ \A c \in 1..Len(Channels) :
          Channels[c] \in DOMAIN subscriptions /\ subscriptions[Channels[c]] = "subscribed"


\* C32: EventBus.emitSafe is a safe emit: if one listener registered for the
\* event throws, every other listener registered for that event is still
\* invoked for that emission.
C32_SafeEmitCallsEveryListener ==
    [][\A bad \in SUBSET Handlers :
          busEmitSafe(bad) =>
              \A i \in 1..Len(listeners) :
                  \E k \in 1..Len(invoked') : invoked'[k] = i]_vars

\* C33: no handler terminates the process; when the periodic base-candle poll
\* fails, a network error included, the failure is only logged, the poll timer
\* stays active and the next tick polls again.
C33_PollFailureKeepsPolling ==
    /\ ~exited
    /\ ~exitTimer
    /\ pollErrors > 0 => updaterTimer


ReconnectTimersPending(ts) == {i \in 1..Len(ts) : ts[i].kind = "reconnectTimer"}

BelowCap ==
    \/ config.maxReconnectAttempts = 0
    \/ reconnectAttempts < config.maxReconnectAttempts

\* C34: each failed or closed connection increments reconnectAttempts by
\* exactly one and leaves exactly one reconnect timer pending, also for a
\* reconnect attempt whose transport open fails (an error event followed by a
\* close event, the awaiting connect() promise rejected).
C34_OneAttemptOneTimerPerFailure ==
    [][\A t \in 1..Len(transports) :
          (/\ TransportFails(t) \/ TransportCloses(t)
           /\ shouldReconnect
           /\ BelowCap
           /\ process' = "running")
          => /\ reconnectAttempts' = reconnectAttempts + 1
             /\ Cardinality(ReconnectTimersPending(timers')) = 1]_vars


StatusOf(subs, ch) == IF ch \in DOMAIN subs THEN subs[ch] ELSE "undefined"

\* the poll of task k finds the last channel subscribed: subscribe() resolves
SubscribeResolves(k) ==
    /\ tasks[k].pc = "wait"
    /\ tasks[k].channel = Len(Channels)
    /\ StatusOf(subscriptions, Channels[tasks[k].channel]) = "subscribed"
    /\ Poll(k, FALSE)

\* C35: subscribe() resolves successfully only if, at the moment it resolves,
\* every requested channel has status subscribed, for any interleaving of
\* acknowledgment frames and error frames with the 100 ms status polls.
C35_ResolvesOnlyWhenAllSubscribed ==
    [][\A k \in 1..Len(tasks) :
          SubscribeResolves(k) =>
              \A c \in 1..Len(Channels) :
                  StatusOf(subscriptions, Channels[c]) = "subscribed"]_vars


Is1mReport(r) == r[1] = "1m"

Reports1m(reports) == SelectSeq(reports, Is1mReport)

\* C37: for every accepted 1m candle ingested when a previous 1m candle was
\* recorded, a gap is reported (handleMissingCandles called) exactly when its
\* timestamp differs from the previous accepted timestamp + 60 s; the candle
\* then becomes the last processed one, so a missing period is reported once
\* and a following contiguous candle reports nothing.
C37_GapReportedExactlyOnMismatch ==
    [][(Len(fed') = Len(fed) + 1) =>
          LET candle == fed'[Len(fed')]
              gap == /\ lastProcessed1m # <<>>
                     /\ candle.timestamp # lastProcessed1m[1] + TIMEFRAME_1M
          IN  /\ fed # <<>> => lastProcessed1m = <<fed[Len(fed)].timestamp>>
              /\ lastProcessed1m' = <<candle.timestamp>>
              /\ Reports1m(gapReports') =
                    IF gap
                    THEN Append(Reports1m(gapReports),
                                <<"1m", lastProcessed1m[1], candle.timestamp>>)
                    ELSE Reports1m(gapReports)]_vars

\* a missing minute was reported once and the contiguous candle after it
\* reported nothing
C37_Witness ==
    /\ Len(fed) >= 3
    /\ Len(Reports1m(gapReports)) = 1
    /\ LET n == Len(fed)
           report == Reports1m(gapReports)[1]
       IN  /\ report = <<"1m", fed[n - 2].timestamp, fed[n - 1].timestamp>>
           /\ fed[n - 1].timestamp = fed[n - 2].timestamp + 2 * TIMEFRAME_1M
           /\ fed[n].timestamp = fed[n - 1].timestamp + TIMEFRAME_1M


PingTimersOf(ts, kind) == {i \in 1..Len(ts) : ts[i].kind = kind}

GateioOpenLeavesOnePing ==
    \A t \in 1..Len(transports) :
        (TransportOpens(t) /\ process' = "running")
          => /\ reconnectAttempts' = 0
             /\ Cardinality(PingTimersOf(timers', "pingTimer")) = 1

FuturesOpenLeavesOnePing ==
    \A t \in 1..Len(fTransports) :
        fOpen(t)
          => /\ fReconnectAttempts' = 0
             /\ Cardinality(PingTimersOf(fTimers', "ping")) = 1

\* C36: every successful transport open sets reconnectAttempts to 0 and leaves
\* exactly one ping interval timer running (no ping timer started for an
\* earlier connection is still active), in GateioWebSocket and in
\* FuturesWebSocket.
C36_OpenResetsAttemptsAndLeavesOnePing ==
    [][GateioOpenLeavesOnePing /\ FuturesOpenLeavesOnePing]_vars

\* C38: in FuturesWebSocket, once disconnect() was called while reconnect()
\* was waiting out its delay (or its connect()/subscribe() was in flight), no
\* connect() is performed and no further reconnect() is started.
C38_DisconnectStopsReconnect ==
    /\ \A t \in 1..Len(fTransports) : ~fTransports[t].afterDisconnect
    /\ \A k \in 1..Len(fTasks) : ~fTasks[k].afterDisconnect

\* C39: in FuturesWebSocket a pong cancels the pong timeout: after a pong is
\* received, no pong timeout started by an earlier ping can still fire and
\* terminate the transport, also when a pong arrives only after the next ping
\* was sent.
C39_PongCancelsEveryPongTimeout ==
    [][\A i \in 1..Len(fTimers) : fPongTimeout(i) => ~fTimers[i].ponged]_vars

====
